---- MODULE Spec2Model ----
(***************************************************************************)
(* SimBA-hap (src/src/simba-hap.cpp): a population simulator that fits 0/1 *)
(* founder alleles, projected through a sample-to-founder haplotype map,   *)
(* to the dosage distribution of every marker of an input VCF file.        *)
(*                                                                         *)
(* The model follows run<2>() step by step: read_vcf, normalization,       *)
(* simulation of the founders distribution and of the haplotype map,       *)
(* fitting of every marker (greedy descent or MIP) and write_vcf.          *)
(*                                                                         *)
(* Conventions.                                                            *)
(*  - C++ strings are sequences of one-character strings.                  *)
(*  - a float is the pair <<num, den>> of its value (den a power of two,   *)
(*    reduced); <<0, 0>> is NaN and <<1, 0>> stands for a value above      *)
(*    every modelled float (FLT_MAX, +inf).  Every float operation rounds  *)
(*    to 24 significant bits, to nearest, ties to even.                    *)
(*  - founder, sample, haplotype and dosage ids are 0-based in the code;   *)
(*    the sequences that hold them are 1-based, so id k lives at k + 1.    *)
(*  - std::mt19937 draws are nondeterministic choices, but for the draws   *)
(*    of a wrapped trip count, which are tabulated by --seed.              *)
(***************************************************************************)
EXTENDS Integers, Sequences, FiniteSets, TLC

\* The instantiation run<2>(options) selected by main() for --ploidy 2.
n_ploidy == 2

\* Bounds of the model.
MaxRecords == 2      \* records of the input VCF file
MaxRunSamples == 1   \* --samples in the runs that start from an input file
MaxSamples == 2      \* --samples in the runs that start after normalization
MaxFounders == 4     \* --founders
MaxRaw == 3          \* known genotypes counted into one raw distribution
MaxIndicator == 2    \* values tried for an (unbounded) MIP indicator column
MaxSeed == 1         \* --seed

VARIABLES
    build_debug,      \* SEQAN_ENABLE_DEBUG: SEQAN_ASSERT* are compiled in
    options,          \* app_options as parsed by main()
    vcf_in,           \* the records of the input file
    pc,               \* position of run() / main()
    rec_i,            \* records consumed from vcf_file_in
    n_markers,        \* run()::n_markers
    positions,        \* variants.positions
    alleles,          \* variants.alleles
    dosages_v,        \* run()::dosages_v
    n_normalized,     \* calls of normalize_dosages_vector so far
    extra,            \* trip count of the loop of simulate_founders_distribution
    founders_d,       \* run()::founders_d
    haplotypes_m,     \* run()::haplotypes_m  [sample][haplotype] -> founder
    founders_alts_v,  \* run()::founders_alts_v [marker][founder]
    samples_alts_v,   \* run()::samples_alts_v [marker][sample][haplotype] -> reference
    marker_id,        \* fit_founders_alts_vector()::marker_id
    distances,        \* fit_founders_alts_vector()::distances
    mip_rows,         \* mip_fitting::mip: the temporary rows the model holds
    descent,          \* descent_fitting::fit: locals of the call in progress
    shared,           \* calls of mip_fitting::fit in progress on one instance
    vcf_out,          \* what write_vcf has written
    exit_code         \* process exit status, -1 while running

vars == <<build_debug, options, vcf_in, pc, rec_i, n_markers, positions, alleles,
          dosages_v, n_normalized, extra, founders_d, haplotypes_m, founders_alts_v,
          samples_alts_v, marker_id, distances, mip_rows, descent, shared, vcf_out,
          exit_code>>

\* No call of mip_fitting::fit in progress: the member arrays
\* mip_dosages_plus/minus hold no row handle, the solver holds no solution.
shared_idle ==
    [pc |-> <<"idle", "idle">>, ids |-> <<>>, next_id |-> 0, handles |-> {},
     sol |-> [alts |-> <<>>, objective |-> <<0, 1>>], results |-> <<>>,
     overlapped |-> FALSE]

----------------------------------------------------------------------------
(* float arithmetic: IEEE binary32, round to nearest, ties to even.  A finite
   value is the pair <<n, d>> in lowest terms, d a power of two; every
   operation computes the exact result and rounds it to 24 significant bits,
   as the hardware does. *)

Abs(x) == IF x < 0 THEN -x ELSE x

Max(a, b) == IF a < b THEN b ELSE a

RECURSIVE Gcd(_, _)
Gcd(a, b) == IF b = 0 THEN a ELSE Gcd(b, a % b)

RECURSIVE TwoPow(_)
TwoPow(k) == IF k = 0 THEN 1 ELSE 2 * TwoPow(k - 1)

RECURSIVE Log2(_)
Log2(n) == IF n <= 1 THEN 0 ELSE 1 + Log2(n \div 2)

\* FLT_MANT_DIG: the significant bits of a float.
MantissaBits == 24

NaN == <<0, 0>>
Huge == <<1, 0>>

IsNaN(a) == a = NaN
IsNumber(a) == a[2] > 0

\* The rational n / d in lowest terms; a zero divisor gives NaN (0/0) or +inf.
Float(n, d) ==
    IF d = 0 THEN (IF n = 0 THEN NaN ELSE Huge)
    ELSE LET g == Gcd(Abs(n), Abs(d))
             s == IF d < 0 THEN -1 ELSE 1
         IN  <<(s * n) \div g, (s * d) \div g>>

\* The integer n as a double: every uint32_t converts exactly.
DFromInt(n) == <<n, 1>>

\* The low bits of m a float has no room for.
RECURSIVE ExcessBits(_)
ExcessBits(m) == IF m < TwoPow(MantissaBits) THEN 0 ELSE 1 + ExcessBits(m \div 2)

\* m >= 0 with its k low bits rounded away, ties to the even neighbour.
RoundToEven(m, k) ==
    IF k = 0 THEN m
    ELSE LET q == m \div TwoPow(k)
             r == m % TwoPow(k)
             half == TwoPow(k - 1)
         IN  (IF r > half \/ (r = half /\ q % 2 = 1) THEN q + 1 ELSE q) * TwoPow(k)

\* The float nearest to the exact value a.
Round32(a) ==
    IF ~IsNumber(a) THEN a
    ELSE LET m == Abs(a[1])
             s == IF a[1] < 0 THEN -1 ELSE 1
         IN  Float(s * RoundToEven(m, ExcessBits(m)), a[2])

\* The conversion of the uint32_t n to float: above 2^24 it rounds.
FromInt(n) == Round32(<<n, 1>>)

\* The exact value a is half way between two floats.
IsTie(a) ==
    /\ IsNumber(a)
    /\ LET m == Abs(a[1])
           k == ExcessBits(m)
       IN  k > 0 /\ m % TwoPow(k) = TwoPow(k - 1)

\* The floats a double within rounding noise of the exact value a converts to:
\* the nearest one, either neighbour when a is half way between two.
Round32Near(a) ==
    IF ~IsTie(a) THEN {Round32(a)}
    ELSE LET m == Abs(a[1])
             s == IF a[1] < 0 THEN -1 ELSE 1
             k == ExcessBits(m)
             q == m \div TwoPow(k)
         IN  {Float(s * q * TwoPow(k), a[2]), Float(s * (q + 1) * TwoPow(k), a[2])}

\* a + b and a - b without rounding: double arithmetic on float operands of
\* this magnitude is exact.
DAdd(a, b) ==
    IF IsNaN(a) \/ IsNaN(b) THEN NaN
    ELSE IF a = Huge \/ b = Huge THEN Huge
    ELSE LET d == Max(a[2], b[2])
         IN  Float(a[1] * (d \div a[2]) + b[1] * (d \div b[2]), d)

DSub(a, b) ==
    IF IsNaN(a) \/ IsNaN(b) THEN NaN
    ELSE IF a = Huge \/ b = Huge THEN Huge
    ELSE LET d == Max(a[2], b[2])
         IN  Float(a[1] * (d \div a[2]) - b[1] * (d \div b[2]), d)

FAdd(a, b) == Round32(DAdd(a, b))

FSub(a, b) == Round32(DSub(a, b))

FMul(a, b) ==
    IF IsNaN(a) \/ IsNaN(b) THEN NaN
    ELSE IF a = Huge \/ b = Huge THEN Huge
    ELSE Round32(Float(a[1] * b[1], a[2] * b[2]))

\* n and d scaled by powers of two until d <= n < 2 d; k counts the scaling:
\* the quotient asked for is (n / d) * 2^k.
RECURSIVE DivNorm(_, _, _)
DivNorm(n, d, k) ==
    IF n < d THEN DivNorm(2 * n, d, k - 1)
    ELSE IF n >= 2 * d THEN DivNorm(n, 2 * d, k + 1)
    ELSE <<n, d, k>>

\* Long division: i more quotient bits of r / d appended to m; the result is
\* the quotient and twice the remainder.
RECURSIVE DivBits(_, _, _, _)
DivBits(r, d, i, m) ==
    IF i = 0 THEN <<m, r>>
    ELSE LET bit == IF r >= d THEN 1 ELSE 0
         IN  DivBits(2 * (r - bit * d), d, i - 1, 2 * m + bit)

\* m * 2^e in lowest terms, m # 0.
RECURSIVE Scale(_, _)
Scale(m, e) ==
    IF e >= 0 THEN <<m * TwoPow(e), 1>>
    ELSE IF m % 2 = 0 THEN Scale(m \div 2, e + 1)
    ELSE <<m, TwoPow(-e)>>

\* a / b rounded once: MantissaBits quotient bits, the remainder decides the
\* rounding.
FDiv(a, b) ==
    IF IsNaN(a) \/ IsNaN(b) THEN NaN
    ELSE IF a = Huge THEN Huge
    ELSE IF b = Huge THEN FromInt(0)
    ELSE IF b[1] = 0 THEN (IF a[1] = 0 THEN NaN ELSE Huge)
    ELSE IF a[1] = 0 THEN FromInt(0)
    ELSE LET s == IF (a[1] < 0) = (b[1] < 0) THEN 1 ELSE -1
             nd == DivNorm(Abs(a[1]), Abs(b[1]), 0)
             qr == DivBits(nd[1], nd[2], MantissaBits, 0)
             m == IF qr[2] > nd[2] \/ (qr[2] = nd[2] /\ qr[1] % 2 = 1)
                  THEN qr[1] + 1 ELSE qr[1]
         IN  Scale(s * m, nd[3] - (MantissaBits - 1) + Log2(b[2]) - Log2(a[2]))

FAbs(a) == IF IsNumber(a) THEN <<Abs(a[1]), a[2]>> ELSE a

\* a < b; every comparison with NaN is false.
FLess(a, b) ==
    IF IsNaN(a) \/ IsNaN(b) THEN FALSE
    ELSE IF a = Huge THEN FALSE
    ELSE IF b = Huge THEN TRUE
    ELSE LET d == Max(a[2], b[2])
         IN  a[1] * (d \div a[2]) < b[1] * (d \div b[2])

FLeq(a, b) == (~IsNaN(a)) /\ (~IsNaN(b)) /\ ~FLess(b, a)

\* std::accumulate(v.begin(), v.end(), 0.0f)
RECURSIVE FSum(_)
FSum(v) == IF v = <<>> THEN FromInt(0) ELSE FAdd(FSum(SubSeq(v, 1, Len(v) - 1)), v[Len(v)])

\* The same sum in double arithmetic.
RECURSIVE DSum(_)
DSum(v) == IF v = <<>> THEN DFromInt(0) ELSE DAdd(DSum(SubSeq(v, 1, Len(v) - 1)), v[Len(v)])

RECURSIVE Sum(_)
Sum(v) == IF v = <<>> THEN 0 ELSE v[1] + Sum(Tail(v))

Dosages == 0 .. n_ploidy

----------------------------------------------------------------------------
(* VCF I/O helpers *)

\* seqan::readUntil(target, it, EqualsChar<c>()): the prefix before the first c.
RECURSIVE ReadUntil(_, _)
ReadUntil(s, c) ==
    IF s = <<>> \/ Head(s) = c THEN <<>> ELSE <<Head(s)>> \o ReadUntil(Tail(s), c)

\* Conversion of a char to seqan::Iupac: case-insensitive, unknown letters are N.
IupacLetters == {"U", "T", "A", "W", "C", "Y", "M", "H", "G", "K", "R", "D", "S", "B", "V", "N"}
Upper(c) ==
    CASE c = "a" -> "A" [] c = "c" -> "C" [] c = "g" -> "G" [] c = "t" -> "T"
      [] c = "n" -> "N" [] OTHER -> c
ToIupac(c) == IF Upper(c) \in IupacLetters THEN Upper(c) ELSE "N"
ToIupacString(s) == [i \in 1 .. Len(s) |-> ToIupac(s[i])]

\* seqan::appendNumber: the decimal digits of n.
Digit(n) ==
    CASE n = 0 -> "0" [] n = 1 -> "1" [] n = 2 -> "2" [] n = 3 -> "3" [] n = 4 -> "4"
      [] n = 5 -> "5" [] n = 6 -> "6" [] n = 7 -> "7" [] n = 8 -> "8" [] OTHER -> "9"
RECURSIVE appendNumber(_)
appendNumber(n) == IF n < 10 THEN <<Digit(n)>> ELSE appendNumber(n \div 10) \o <<Digit(n % 10)>>

NotSlash(c) == c # "/"
NotBar(c) == c # "|"

\* read_genotype that strips '/' but leaves the phased separator '|' in place.
read_genotype_slash_only(genotype_info) ==
    SelectSeq(ReadUntil(genotype_info, ":"), NotSlash)

read_genotype(genotype_info) ==
    SelectSeq(SelectSeq(ReadUntil(genotype_info, ":"), NotSlash), NotBar)

\* genotype: the allele values of one sample, already read through the view.
RECURSIVE write_genotype(_)
write_genotype(genotype) ==
    IF Len(genotype) = 1 THEN appendNumber(genotype[1])
    ELSE appendNumber(Head(genotype)) \o <<"|">> \o write_genotype(Tail(genotype))

get_ploidy(genotype) == Len(genotype)

\* A genotype with a '.' anywhere counts as unknown.
is_unknown_any(genotype) ==
    IF genotype = <<>> THEN {"known", "crashed"}
    ELSE IF \E i \in 1 .. Len(genotype) : genotype[i] = "." THEN {"unknown"} ELSE {"known"}

\* genotype.back() == '.'.  On an empty genotype back() reads the byte before
\* the buffer of the vector, which is undefined: the vector read_vcf reuses
\* has a buffer once a genotype with a character was read, and the byte before
\* it, of the allocator's bookkeeping, is not a '.'; without a buffer the read
\* faults and the process dies.
is_unknown(genotype) ==
    IF genotype = <<>> THEN {"known", "crashed"}
    ELSE IF genotype[Len(genotype)] = "." THEN {"unknown"} ELSE {"known"}

get_dosage(genotype, value) == Cardinality({i \in 1 .. Len(genotype) : genotype[i] = value})

----------------------------------------------------------------------------
(* Dosages *)

\* genotypes: per sample, the allele values read through the view.
make_dosages_distribution(genotypes) ==
    [p \in 1 .. n_ploidy + 1 |->
        Cardinality({s \in 1 .. Len(genotypes) : get_dosage(genotypes[s], 1) = p - 1})]

\* std::accumulate(v.begin(), v.end(), 0u): every partial sum truncated to an integer.
RECURSIVE ISum(_)
ISum(v) ==
    IF v = <<>> THEN FromInt(0)
    ELSE LET t == FAdd(ISum(SubSeq(v, 1, Len(v) - 1)), v[Len(v)])
         IN  IF IsNumber(t) THEN FromInt(t[1] \div t[2]) ELSE t

\* normalize_dosages_distribution with the sum accumulated from 0u instead of 0.0f.
normalize_dosages_distribution_intsum(dosages_d, n_samples) ==
    LET dosages_sum == ISum(dosages_d)
    IN  [p \in 1 .. Len(dosages_d) |-> FDiv(FMul(FromInt(n_samples), dosages_d[p]), dosages_sum)]

normalize_dosages_distribution(dosages_d, n_samples) ==
    LET dosages_sum == FSum(dosages_d)
    IN  [p \in 1 .. Len(dosages_d) |-> FDiv(FMul(FromInt(n_samples), dosages_d[p]), dosages_sum)]

\* a: a float distribution, b: a uint32_t distribution.
RECURSIVE l1_norm(_, _)
l1_norm(a, b) ==
    IF a = <<>> THEN FromInt(0)
    ELSE FAdd(l1_norm(SubSeq(a, 1, Len(a) - 1), SubSeq(b, 1, Len(b) - 1)),
              FAbs(FSub(a[Len(a)], FromInt(b[Len(b)]))))

normalize_dosages_vector(dv, n_samples) ==
    [m \in 1 .. Len(dv) |-> normalize_dosages_distribution(dv[m], n_samples)]

----------------------------------------------------------------------------
(* Founders and haplotypes map *)

\* The founders distributions that n draws of distribution(generator) can leave
\* behind, starting from founders_d: each draw increments one founder.
RECURSIVE draw_founders(_, _)
draw_founders(fd, n) ==
    IF n = 0 THEN {fd}
    ELSE UNION {draw_founders([fd EXCEPT ![f] = @ + 1], n - 1) :
                    f \in 1 .. Len(fd)}

\* founders_d.resize(n_founders, 0u): no founder starts with a haplotype.
resize_founders_d_zero(n_founders) == [f \in 1 .. n_founders |-> 0]

\* founders_d.resize(n_founders, 1u)
resize_founders_d(n_founders) == [f \in 1 .. n_founders |-> 1]

simulate_founders_distribution(n_founders, n_samples) ==
    draw_founders(resize_founders_d(n_founders), n_samples * n_ploidy - n_founders)

\* simulate_founders_distribution with n_founders > n_samples * n_ploidy in a
\* build without assertions: the uint32_t trip count is
\* 2^32 + n_samples * n_ploidy - n_founders, and the entries, 1 and the draws
\* of each founder, sum to 2^32 + n_samples * n_ploidy.  The unsigned wrap is
\* defined and the draws are fixed by the seed: the entries are those the loop
\* leaves with std::mt19937 generator(seed) and the
\* std::uniform_int_distribution<uint32_t>(0, n_founders - 1) of libstdc++,
\* computed by running it, for --ploidy 2.
wrapped_founders_d(n_founders, n_samples, seed) ==
    CASE n_founders = 3 /\ n_samples = 1 /\ seed = 0 ->
             <<1431654364, 1431649447, 1431663487>>
      [] n_founders = 3 /\ n_samples = 1 /\ seed = 1 ->
             <<1431669484, 1431639814, 1431658000>>
      [] n_founders = 3 /\ n_samples = 1 /\ seed = 2 ->
             <<1431697027, 1431637108, 1431633163>>
      [] n_founders = 4 /\ n_samples = 1 /\ seed = 0 ->
             <<1073712956, 1073773544, 1073712216, 1073768582>>
      [] n_founders = 4 /\ n_samples = 1 /\ seed = 1 ->
             <<1073729897, 1073772551, 1073727804, 1073737046>>
      [] n_founders = 4 /\ n_samples = 1 /\ seed = 2 ->
             <<1073779831, 1073757147, 1073690340, 1073739980>>
      [] n_founders = 5 /\ n_samples = 1 /\ seed = 0 ->
             <<858961400, 859005707, 858984786, 858984933, 859030472>>
      [] n_founders = 5 /\ n_samples = 1 /\ seed = 1 ->
             <<858990756, 859020077, 858970096, 859015564, 858970805>>
      [] n_founders = 5 /\ n_samples = 1 /\ seed = 2 ->
             <<859011946, 859013040, 858984489, 858986668, 858971155>>
      [] n_founders = 5 /\ n_samples = 2 /\ seed = 0 ->
             <<858961400, 859005709, 858984786, 858984933, 859030472>>
      [] n_founders = 5 /\ n_samples = 2 /\ seed = 1 ->
             <<858990757, 859020077, 858970097, 859015564, 858970805>>
      [] n_founders = 5 /\ n_samples = 2 /\ seed = 2 ->
             <<859011946, 859013040, 858984490, 858986668, 858971156>>

\* The loop of std::fill_n: founder f (0-based) repeated founders_d[f] times.
RECURSIVE fill_haplotypes(_, _)
fill_haplotypes(fd, f) ==
    IF f > Len(fd) THEN <<>>
    ELSE [i \in 1 .. fd[f] |-> f - 1] \o fill_haplotypes(fd, f + 1)

\* std::shuffle: every permutation of the flat array.
shuffle(flat) ==
    {[i \in 1 .. Len(flat) |-> flat[perm[i]]] : perm \in Permutations(1 .. Len(flat))}

\* boost::extents[n_samples][n_ploidy] over the flat (row-major) data.
reshape(flat, n_samples) ==
    [s \in 1 .. n_samples |-> [h \in 1 .. n_ploidy |-> flat[(s - 1) * n_ploidy + h]]]

simulate_haplotypes_map(fd, n_samples) ==
    {reshape(flat, n_samples) : flat \in shuffle(fill_haplotypes(fd, 1))}

----------------------------------------------------------------------------
(* Sample allele view *)

\* samples_alts[sample][haplotype] refers to founders_alts[haplotypes_m[sample][haplotype]]:
\* the view holds the founder id, and is read through at every use.
fill_samples_alts(hm) == hm

fill_samples_alts_vector(n, hm) == [m \in 1 .. n |-> fill_samples_alts(hm)]

\* A view that holds the values the founders had when it was filled (all 0
\* after the resize of run()) instead of references to them.
read_view_copied(view, founders_alts) ==
    [s \in 1 .. Len(view) |-> [h \in 1 .. Len(view[s]) |-> 0]]

\* reference_view::get() on every entry of a sample allele view.
read_view(view, founders_alts) ==
    [s \in 1 .. Len(view) |-> [h \in 1 .. Len(view[s]) |-> founders_alts[view[s][h] + 1]]]

----------------------------------------------------------------------------
(* Greedy descent fitter *)

\* No call of descent_fitting::fit is in progress.
descent_idle ==
    [pc |-> "idle", distance |-> FromInt(0), ones |-> 0, j |-> 0, distances |-> <<>>]

\* The std::transform of one iteration: the probed distance of every founder.
descent_probe(view, founders_alts, dosages_d_in) ==
    [j \in 1 .. Len(founders_alts) |->
        IF founders_alts[j] = 1 THEN Huge
        ELSE l1_norm(dosages_d_in,
                     make_dosages_distribution(
                         read_view(view, [founders_alts EXCEPT ![j] = 1])))]

\* std::min_element: the first element no later element is less than.
RECURSIVE min_element_from(_, _, _)
min_element_from(d, i, smallest) ==
    IF i > Len(d) THEN smallest
    ELSE min_element_from(d, i + 1, IF FLess(d[i], d[smallest]) THEN i ELSE smallest)

min_element(d) == min_element_from(d, 2, 1)

\* The break test with its operands swapped.
descent_stop_reversed(distance, min_distance) == FLess(min_distance, distance)

\* The break test of the loop: TRUE stops without committing.
descent_stop(distance, min_distance) == FLess(distance, min_distance)

\* One iteration of the for loop over ones; st = [alts, distance, ones, done].
descent_iteration(view, dosages_d_in, st) ==
    LET ds == descent_probe(view, st.alts, dosages_d_in)
        min_i == min_element(ds)
        min_distance == ds[min_i]
    IN  IF descent_stop(st.distance, min_distance)
        THEN [st EXCEPT !.done = TRUE]
        ELSE [alts |-> [st.alts EXCEPT ![min_i] = 1], distance |-> min_distance,
              ones |-> st.ones + 1, done |-> FALSE]

\* State before the loop: the vector is reset to zero and its distance taken.
descent_start(view, n_founders, dosages_d_in) ==
    LET zero == [j \in 1 .. n_founders |-> 0]
    IN  [alts |-> zero,
         distance |-> l1_norm(dosages_d_in, make_dosages_distribution(read_view(view, zero))),
         ones |-> 0, done |-> FALSE]

RECURSIVE descent_loop(_, _, _)
descent_loop(view, dosages_d_in, st) ==
    IF st.done \/ st.ones >= Len(st.alts) THEN st
    ELSE descent_loop(view, dosages_d_in, descent_iteration(view, dosages_d_in, st))

\* descent_fitting::fit: the founder vector left behind and the distance returned.
descent_fit(hm, n_founders, dosages_d_in) ==
    LET st == descent_loop(fill_samples_alts(hm), dosages_d_in,
                           descent_start(fill_samples_alts(hm), n_founders, dosages_d_in))
    IN  {[alts |-> st.alts, distance |-> st.distance, aborted |-> FALSE]}

----------------------------------------------------------------------------
(* Greedy descent fitter, statement by statement *)

\* The founder vector and the target of the call in progress, and the view
\* fill_samples_alts builds over that vector at the start of the call.
descent_founders_alts == founders_alts_v[marker_id + 1]

descent_dosages_d_in == dosages_v[marker_id + 1]

descent_view == fill_samples_alts(haplotypes_m)

\* The loop test off by one: ones <= n_founders.
descent_continue_inclusive(ones, n_founders) == ones <= n_founders

\* The loop test: ones < n_founders.
descent_continue(ones, n_founders) == ones < n_founders

\* The lambda without its first test: every founder is probed.
descent_skip_never(alt) == FALSE

\* The first test of the lambda: a founder at 1 is not probed.
descent_skip(alt) == alt = 1

\* fit() up to the loop: the view is filled, the vector reset to 0, distances
\* resized, and the distance of the all-zero vector taken.
DescentStart ==
    /\ pc = "fit"
    /\ ~options.mip
    /\ marker_id < Len(founders_alts_v)
    /\ descent.pc = "idle"
    /\ LET n_founders == Len(descent_founders_alts)
           st == descent_start(descent_view, n_founders, descent_dosages_d_in)
       IN  /\ founders_alts_v' = [founders_alts_v EXCEPT ![marker_id + 1] = st.alts]
           /\ descent' = [pc |-> IF descent_continue(0, n_founders) THEN "probe" ELSE "return",
                          distance |-> st.distance, ones |-> 0, j |-> 0,
                          distances |-> [f \in 1 .. n_founders |->
                                            IF f <= Len(descent.distances)
                                            THEN descent.distances[f] ELSE FromInt(0)]]
    /\ UNCHANGED <<mip_rows, shared, build_debug, options, vcf_in, pc, rec_i, n_markers, positions,
                   alleles, dosages_v, n_normalized, extra, founders_d, haplotypes_m,
                   samples_alts_v, marker_id, distances, vcf_out, exit_code>>

\* The lambda of std::transform on founder j, first half: a founder at 1 gets
\* the largest float; a founder at 0 is set to 1.
DescentProbeSet ==
    /\ descent.pc = "probe"
    /\ descent.j < Len(descent_founders_alts)
    /\ IF descent_skip(descent_founders_alts[descent.j + 1])
       THEN /\ descent' = [descent EXCEPT !.distances[descent.j + 1] = Huge,
                                          !.j = descent.j + 1]
            /\ UNCHANGED founders_alts_v
       ELSE /\ founders_alts_v' = [founders_alts_v EXCEPT ![marker_id + 1][descent.j + 1] = 1]
            /\ descent' = [descent EXCEPT !.pc = "revert"]
    /\ UNCHANGED <<mip_rows, shared, build_debug, options, vcf_in, pc, rec_i, n_markers, positions,
                   alleles, dosages_v, n_normalized, extra, founders_d, haplotypes_m,
                   samples_alts_v, marker_id, distances, vcf_out, exit_code>>

\* The lambda, second half: the distribution is read through the view, the
\* founder is set back to 0 and the distance to the target is stored.
DescentProbeRevert ==
    /\ descent.pc = "revert"
    /\ LET dosages_d_x == make_dosages_distribution(read_view(descent_view, descent_founders_alts))
       IN  /\ founders_alts_v' = [founders_alts_v EXCEPT ![marker_id + 1][descent.j + 1] = 0]
           /\ descent' = [descent EXCEPT
                              !.distances[descent.j + 1] = l1_norm(descent_dosages_d_in, dosages_d_x),
                              !.j = descent.j + 1,
                              !.pc = "probe"]
    /\ UNCHANGED <<mip_rows, shared, build_debug, options, vcf_in, pc, rec_i, n_markers, positions,
                   alleles, dosages_v, n_normalized, extra, founders_d, haplotypes_m,
                   samples_alts_v, marker_id, distances, vcf_out, exit_code>>

\* After the transform: min_element, the break test, and the commit.
DescentSelect ==
    /\ descent.pc = "probe"
    /\ descent.j = Len(descent_founders_alts)
    /\ LET min_i == min_element(descent.distances)
           min_distance == descent.distances[min_i]
       IN  IF descent_stop(descent.distance, min_distance)
           THEN /\ descent' = [descent EXCEPT !.pc = "return"]
                /\ UNCHANGED founders_alts_v
           ELSE /\ founders_alts_v' = [founders_alts_v EXCEPT ![marker_id + 1][min_i] = 1]
                /\ descent' = [descent EXCEPT
                                   !.distance = min_distance,
                                   !.ones = descent.ones + 1,
                                   !.j = 0,
                                   !.pc = IF descent_continue(descent.ones + 1,
                                                              Len(descent_founders_alts))
                                          THEN "probe" ELSE "return"]
    /\ UNCHANGED <<mip_rows, shared, build_debug, options, vcf_in, pc, rec_i, n_markers, positions,
                   alleles, dosages_v, n_normalized, extra, founders_d, haplotypes_m,
                   samples_alts_v, marker_id, distances, vcf_out, exit_code>>

\* return distance: fit_founders_alts_vector adds it up and goes to the next marker.
DescentReturn ==
    /\ descent.pc = "return"
    /\ distances' = FAdd(distances, descent.distance)
    /\ marker_id' = marker_id + 1
    /\ descent' = [descent EXCEPT !.pc = "idle"]
    /\ UNCHANGED <<mip_rows, shared, build_debug, options, vcf_in, pc, rec_i, n_markers, positions,
                   alleles, dosages_v, n_normalized, extra, founders_d, haplotypes_m,
                   founders_alts_v, samples_alts_v, vcf_out, exit_code>>

----------------------------------------------------------------------------
(* Exact MIP fitter *)

\* sample_sum over the first haplotype only.
mip_sample_sum_first(hm, alts, s) == alts[hm[s][1] + 1]

\* sample_sum of init(): the founder columns of the sample's haplotypes, summed.
mip_sample_sum(hm, alts, s) == Sum([h \in 1 .. n_ploidy |-> alts[hm[s][h] + 1]])

\* The rows on e_s,p without e >= sum - p.
mip_error_rows_one_sided(sample_sum, dosage, indicator) ==
    LET lower == IF dosage - sample_sum > 0 THEN dosage - sample_sum ELSE 0
    IN  lower <= n_ploidy * (1 - indicator)

\* The rows on e_s,p with the upper bound not scaled: e <= 1 - i_s,p.
mip_error_rows_unscaled(sample_sum, dosage, indicator) ==
    LET lower == IF Abs(dosage - sample_sum) > 0 THEN Abs(dosage - sample_sum) ELSE 0
    IN  lower <= 1 - indicator

\* The rows on e_s,p without the indicator in the upper bound: e <= n_ploidy.
mip_error_rows_loose(sample_sum, dosage, indicator) ==
    Abs(dosage - sample_sum) <= n_ploidy

\* The rows of init() on the error column e_s,p: e >= p - sum, e >= sum - p,
\* e <= n_ploidy * (1 - i_s,p), with the column bound e >= 0.  Some real e
\* satisfies them iff the largest lower bound is at most the upper bound.
mip_error_rows(sample_sum, dosage, indicator) ==
    LET lower == IF Abs(dosage - sample_sum) > 0 THEN Abs(dosage - sample_sum) ELSE 0
    IN  lower <= n_ploidy * (1 - indicator)

\* The row as sum_p i_s,p <= 1.
mip_indicator_row_at_most(indicators) == Sum(indicators) <= 1

\* The row sum_p i_s,p == 1 of init().
mip_indicator_row(indicators) == Sum(indicators) = 1

\* Values of the indicator columns of one sample (INTEGER, lower bound 0, no
\* upper bound) that satisfy the rows of init() under the founder columns alts.
mip_sample_indicators(hm, alts, s) ==
    {ind \in [1 .. n_ploidy + 1 -> 0 .. MaxIndicator] :
        /\ mip_indicator_row(ind)
        /\ \A p \in Dosages : mip_error_rows(mip_sample_sum(hm, alts, s), p, ind[p + 1])}

RECURSIVE mip_indicators(_, _, _)
mip_indicators(hm, alts, s) ==
    IF s = 0 THEN {<<>>}
    ELSE {Append(rest, ind) : rest \in mip_indicators(hm, alts, s - 1),
                              ind \in mip_sample_indicators(hm, alts, s)}

\* The row d_p == sum_s i_s,p of init().
mip_dosages_row(indicators) ==
    [p \in 1 .. n_ploidy + 1 |-> Sum([s \in 1 .. Len(indicators) |-> indicators[s][p]])]

\* The two rows fit() adds for every dosage: d_p - d_obs <= z_p (sign 1) and
\* d_obs - d_p <= z_p (sign -1), in the order of the addRow calls.
mip_dosages_rows(dosages_d_in) ==
    [i \in 1 .. 2 * (n_ploidy + 1) |->
        [dosage |-> (i - 1) \div 2, d_obs |-> dosages_d_in[(i - 1) \div 2 + 1],
         sign |-> IF i % 2 = 1 THEN 1 ELSE -1]]

\* The rows of the model after the addRow calls of fit().
mip_add_rows(rows, dosages_d_in) == rows \o mip_dosages_rows(dosages_d_in)

\* Only the first for_each of erase calls: the rows of mip_dosages_minus stay.
mip_erase_rows_plus(rows) ==
    LET kept == Len(rows) - 2 * (n_ploidy + 1)
    IN  SubSeq(rows, 1, kept)
            \o SelectSeq(SubSeq(rows, kept + 1, Len(rows)), LAMBDA row : row.sign = -1)

\* The erase calls at the end of fit() on the handles mip_dosages_plus and
\* mip_dosages_minus: the rows this call added, the last ones, are gone.
mip_erase_rows(rows) == SubSeq(rows, 1, Len(rows) - 2 * (n_ploidy + 1))

\* The smallest z_p >= 0 the rows on dosage p allow when d_p = d.  The solver
\* works in double: the float d_obs converts exactly, the difference is exact.
RECURSIVE mip_z(_, _, _)
mip_z(rows, p, d) ==
    IF rows = <<>> THEN FromInt(0)
    ELSE LET rest == mip_z(Tail(rows), p, d)
             row == Head(rows)
             bound == IF row.sign = 1 THEN DSub(DFromInt(d), row.d_obs)
                      ELSE DSub(row.d_obs, DFromInt(d))
         IN  IF row.dosage = p /\ FLess(rest, bound) THEN bound ELSE rest

\* The objective sum_p z_p at its smallest for the dosages d: with the rows of
\* one target only, z_p = |d_p - d_obs|.
mip_objective(dosages, rows) ==
    DSum([p \in 1 .. n_ploidy + 1 |-> mip_z(rows, p - 1, dosages[p])])

\* Every integer-feasible point of the model, with its smallest objective value.
mip_feasible(hm, n_founders, rows) ==
    UNION {{[alts |-> alts, indicators |-> ind, dosages |-> mip_dosages_row(ind),
             objective |-> mip_objective(mip_dosages_row(ind), rows)] :
                ind \in mip_indicators(hm, alts, Len(hm))} :
           alts \in [1 .. n_founders -> {0, 1}]}

\* mip.solve() returning the first feasible point it meets, whatever its objective.
mip_solve_any(hm, n_founders, rows) == mip_feasible(hm, n_founders, rows)

\* mip.solve() with outcome OPTIMAL: any feasible point of smallest objective.
mip_solve(hm, n_founders, rows) ==
    LET feasible == mip_feasible(hm, n_founders, rows)
    IN  {x \in feasible : \A y \in feasible : ~FLess(y.objective, x.objective)}

\* float distance = mip.solValue(): the double objective converted to float.
mip_distance(objective) == Round32Near(objective)

\* mip_fitting::fit.  The asserted outcome (OPTIMAL, read-back distribution
\* summing to the sample count) aborts a debug build when it fails.  With a NaN
\* target the rows handed to the solver hold NaN bounds: what the solver then
\* returns is unspecified, any founder vector or a non-optimal outcome.  A
\* model without feasible point has no OPTIMAL outcome either: a debug build
\* aborts, another build reads back whatever the solver left.  rows
\* are the temporary rows the model holds when fit() is called; the result
\* carries the rows it holds when fit() returns.
mip_fit(hm, n_founders, dosages_d_in, rows, debug) ==
    LET model == mip_add_rows(rows, dosages_d_in)
    IN  IF \/ \E i \in 1 .. Len(model) : IsNaN(model[i].d_obs)
           \/ mip_feasible(hm, n_founders, model) = {}
        THEN {[alts |-> alts, distance |-> NaN, aborted |-> FALSE,
               rows |-> mip_erase_rows(model)] :
                  alts \in [1 .. n_founders -> {0, 1}]}
             \cup (IF debug
                   THEN {[alts |-> [j \in 1 .. n_founders |-> 0], distance |-> NaN,
                          aborted |-> TRUE, rows |-> model]}
                   ELSE {})
        ELSE UNION {{[alts |-> x.alts, distance |-> distance,
                      aborted |-> debug /\ (Sum(x.dosages) # Len(hm)),
                      rows |-> mip_erase_rows(model)] :
                         distance \in mip_distance(x.objective)} :
                    x \in mip_solve(hm, n_founders, model)}

\* The strategy run() selects.
fit(mip, hm, n_founders, dosages_d_in, rows, debug) ==
    IF mip THEN mip_fit(hm, n_founders, dosages_d_in, rows, debug)
    ELSE {[alts |-> r.alts, distance |-> r.distance, aborted |-> r.aborted, rows |-> rows] :
              r \in descent_fit(hm, n_founders, dosages_d_in)}

----------------------------------------------------------------------------
(* read_vcf *)

\* The loop over the genotypes with a wrong ploidy skipped like an unknown genotype.
RECURSIVE read_genotypes_skip(_, _)
read_genotypes_skip(infos, dd) ==
    IF infos = <<>> THEN {[thrown |-> FALSE, crashed |-> FALSE, dosages_d |-> dd]}
    ELSE LET genotype == read_genotype(Head(infos))
         IN  UNION {IF unknown = "crashed"
                    THEN {[thrown |-> FALSE, crashed |-> TRUE, dosages_d |-> dd]}
                    ELSE IF unknown = "unknown" \/ get_ploidy(genotype) # n_ploidy
                    THEN read_genotypes_skip(Tail(infos), dd)
                    ELSE read_genotypes_skip(Tail(infos),
                             [dd EXCEPT ![get_dosage(genotype, "1") + 1] =
                                            FAdd(@, FromInt(1))]) :
                        unknown \in is_unknown(genotype)}

\* The loop over vcf_record.genotypeInfos: every way it can end, with the
\* dosages counted, the throw, or the death of the process in is_unknown.
RECURSIVE read_genotypes(_, _)
read_genotypes(infos, dd) ==
    IF infos = <<>> THEN {[thrown |-> FALSE, crashed |-> FALSE, dosages_d |-> dd]}
    ELSE LET genotype == read_genotype(Head(infos))
         IN  UNION {IF unknown = "crashed"
                    THEN {[thrown |-> FALSE, crashed |-> TRUE, dosages_d |-> dd]}
                    ELSE IF unknown = "unknown"
                    THEN read_genotypes(Tail(infos), dd)
                    ELSE IF get_ploidy(genotype) # n_ploidy
                    THEN {[thrown |-> TRUE, crashed |-> FALSE, dosages_d |-> dd]}
                    ELSE read_genotypes(Tail(infos),
                             [dd EXCEPT ![get_dosage(genotype, "1") + 1] =
                                            FAdd(@, FromInt(1))]) :
                        unknown \in is_unknown(genotype)}

\* The dosages counted over genotypes that all have an allele: the loop has
\* one way to end.
read_dosages_d(infos) ==
    (CHOOSE r \in read_genotypes(infos, [p \in 1 .. n_ploidy + 1 |-> FromInt(0)]) :
        TRUE).dosages_d

\* front(alleles) = ref; readUntil(back(alleles), alleles_it, EqualsChar<','>())
read_alleles(vcf_record) ==
    <<ToIupacString(vcf_record.ref), ToIupacString(ReadUntil(vcf_record.alt, ","))>>

\* The multi-allelic test never firing.
is_polyallelic_never(vcf_record) == FALSE

\* !atEnd(alleles_it) after the readUntil: a comma stopped it.
is_polyallelic(vcf_record) == Len(ReadUntil(vcf_record.alt, ",")) < Len(vcf_record.alt)

zero_dosages_d == [p \in 1 .. n_ploidy + 1 |-> FromInt(0)]

\* One iteration of the while loop of read_vcf; the IOError it may throw leaves
\* run() and is caught by main(), which returns 1.  A fault in is_unknown ends
\* the process with SIGSEGV.
ReadRecord ==
    /\ pc = "read_vcf"
    /\ rec_i < Len(vcf_in)
    /\ LET vcf_record == vcf_in[rec_i + 1]
           position == <<vcf_record.rID, vcf_record.beginPos>>
       IN  /\ rec_i' = rec_i + 1
           /\ IF is_polyallelic(vcf_record)
              THEN UNCHANGED <<pc, positions, alleles, dosages_v, exit_code>>
              ELSE \E r \in read_genotypes(vcf_record.genotypeInfos, zero_dosages_d) :
                       IF r.crashed
                       THEN /\ pc' = "crashed"
                            /\ exit_code' = 139
                            /\ UNCHANGED <<positions, alleles, dosages_v>>
                       ELSE IF r.thrown
                       THEN /\ pc' = "exit"
                            /\ exit_code' = 1
                            /\ UNCHANGED <<positions, alleles, dosages_v>>
                       ELSE /\ positions' = Append(positions, position)
                            /\ alleles' = Append(alleles, read_alleles(vcf_record))
                            /\ dosages_v' = Append(dosages_v, r.dosages_d)
                            /\ UNCHANGED <<pc, exit_code>>
    /\ UNCHANGED <<mip_rows, descent, shared, build_debug, options, vcf_in, n_markers, n_normalized, extra, founders_d,
                   haplotypes_m, founders_alts_v, samples_alts_v, marker_id, distances,
                   vcf_out>>

\* The configured marker count kept: the assignment after read_vcf left out.
loaded_n_markers_configured(configured, dosages) == configured

\* n_markers = dosages_v.size(), whatever options.n_markers holds.
loaded_n_markers(configured, dosages) == Len(dosages)

\* atEnd(vcf_file_in): read_vcf returns and run() takes n_markers = dosages_v.size().
ReadEnd ==
    /\ pc = "read_vcf"
    /\ rec_i = Len(vcf_in)
    /\ n_markers' = loaded_n_markers(n_markers, dosages_v)
    /\ pc' = "normalize"
    /\ UNCHANGED <<mip_rows, descent, shared, build_debug, options, vcf_in, rec_i, positions, alleles, dosages_v,
                   n_normalized, extra, founders_d, haplotypes_m, founders_alts_v,
                   samples_alts_v, marker_id, distances, vcf_out, exit_code>>

----------------------------------------------------------------------------
(* run *)

\* normalize_dosages_vector(dosages_v, options.n_samples)
Normalize ==
    /\ pc = "normalize"
    /\ dosages_v' = normalize_dosages_vector(dosages_v, options.n_samples)
    /\ n_normalized' = n_normalized + 1
    /\ pc' = "founders"
    /\ UNCHANGED <<mip_rows, descent, shared, build_debug, options, vcf_in, rec_i, n_markers, positions, alleles,
                   extra, founders_d, haplotypes_m, founders_alts_v, samples_alts_v,
                   marker_id, distances, vcf_out, exit_code>>

\* A second normalize_dosages_vector(dosages_v, options.n_samples) on the result
\* of the first.  run() never does this; it is here to state idempotence.
Renormalize ==
    /\ pc = "founders"
    /\ n_normalized = 1
    /\ dosages_v' = normalize_dosages_vector(dosages_v, options.n_samples)
    /\ n_normalized' = n_normalized + 1
    /\ UNCHANGED <<mip_rows, descent, shared, build_debug, options, vcf_in, pc, rec_i, n_markers, positions, alleles,
                   extra, founders_d, haplotypes_m, founders_alts_v, samples_alts_v,
                   marker_id, distances, vcf_out, exit_code>>

\* SEQAN_ASSERT_LEQ(n_founders, n_samples * n_ploidy)
founders_fit(n_founders, n_samples) == n_founders <= n_samples * n_ploidy

\* simulate_founders_distribution.  Its precondition is a SEQAN_ASSERT: a debug
\* build aborts (SIGABRT, status 134) when it fails; a build without assertions
\* goes on, and the uint32_t trip count n_samples * n_ploidy - n_founders of the
\* loop wraps to 2^32 + low (borrow = 1, low < 0): founders_d then holds
\* the entries that many draws of the generator seeded with options.seed leave.
SimulateFoundersDistribution ==
    /\ pc = "founders"
    /\ n_normalized = 1
    /\ LET n_founders == options.n_founders
           n_samples == options.n_samples
       IN  IF founders_fit(n_founders, n_samples)
           THEN /\ extra' = [borrow |-> 0, low |-> n_samples * n_ploidy - n_founders]
                /\ founders_d' \in simulate_founders_distribution(n_founders, n_samples)
                /\ pc' = "haplotypes"
                /\ UNCHANGED exit_code
           ELSE IF build_debug
                THEN /\ pc' = "aborted"
                     /\ exit_code' = 134
                     /\ UNCHANGED <<extra, founders_d>>
                ELSE /\ extra' = [borrow |-> 1, low |-> n_samples * n_ploidy - n_founders]
                     /\ founders_d' = wrapped_founders_d(n_founders, n_samples, options.seed)
                     /\ pc' = "overflow"
                     /\ UNCHANGED exit_code
    /\ UNCHANGED <<mip_rows, descent, shared, build_debug, options, vcf_in, rec_i, n_markers, positions, alleles,
                   dosages_v, n_normalized, haplotypes_m, founders_alts_v, samples_alts_v,
                   marker_id, distances, vcf_out>>

\* simulate_haplotypes_map: fill by multiplicity, shuffle, reshape.
SimulateHaplotypesMap ==
    /\ pc = "haplotypes"
    /\ haplotypes_m' \in simulate_haplotypes_map(founders_d, options.n_samples)
    /\ pc' = "resize"
    /\ UNCHANGED <<mip_rows, descent, shared, build_debug, options, vcf_in, rec_i, n_markers, positions, alleles,
                   dosages_v, n_normalized, extra, founders_d, founders_alts_v,
                   samples_alts_v, marker_id, distances, vcf_out, exit_code>>

\* simulate_haplotypes_map after the trip count wrapped: std::fill_n writes
\* founders_d[0] > n_samples * n_ploidy entries into the map: undefined behaviour.
\* The process dies on a signal (status 139), or goes on in a state the model
\* does not follow, exiting with any status, output written or not.
SimulateHaplotypesMapOverflow ==
    /\ pc = "overflow"
    /\ \E outcome \in {"crashed", "undefined"}, status \in {0, 1}, written \in BOOLEAN :
           /\ pc' = outcome
           /\ exit_code' = IF outcome = "crashed" THEN 139 ELSE status
           /\ vcf_out' = [written |-> (outcome = "undefined") /\ written, records |-> <<>>]
    /\ UNCHANGED <<mip_rows, descent, shared, build_debug, options, vcf_in, rec_i, n_markers, positions, alleles,
                   dosages_v, n_normalized, extra, founders_d, haplotypes_m, founders_alts_v,
                   samples_alts_v, marker_id, distances>>

\* founders_alts_v.resize(n_markers, founders_alts(options.n_founders));
\* fill_samples_alts_vector(samples_alts_v, founders_alts_v, haplotypes_m)
Resize ==
    /\ pc = "resize"
    /\ founders_alts_v' = [m \in 1 .. n_markers |-> [f \in 1 .. options.n_founders |-> 0]]
    /\ samples_alts_v' = fill_samples_alts_vector(n_markers, haplotypes_m)
    /\ marker_id' = 0
    /\ distances' = FromInt(0)
    /\ pc' = "fit"
    /\ UNCHANGED <<mip_rows, descent, shared, build_debug, options, vcf_in, rec_i, n_markers, positions, alleles,
                   dosages_v, n_normalized, extra, founders_d, haplotypes_m, vcf_out,
                   exit_code>>

\* Every call is handed the target of the first marker.
fit_target_first(targets, id) == targets[1]

\* dosages_v[marker_id], the target handed to fitting.fit for marker id
\* (0-based).
fit_target(targets, id) == targets[id + 1]

\* One iteration of the loop of fit_founders_alts_vector: fitting.fit on the
\* marker's founder vector and target.  A failed assertion aborts the process.
FitMarker ==
    /\ pc = "fit"
    /\ marker_id < Len(founders_alts_v)
    /\ \E r \in fit(options.mip, haplotypes_m, Len(founders_alts_v[marker_id + 1]),
                    fit_target(dosages_v, marker_id), mip_rows, build_debug) :
           /\ mip_rows' = r.rows
           /\ IF r.aborted
              THEN /\ pc' = "aborted"
                   /\ exit_code' = 134
                   /\ UNCHANGED <<founders_alts_v, marker_id, distances>>
              ELSE /\ founders_alts_v' = [founders_alts_v EXCEPT ![marker_id + 1] = r.alts]
                   /\ distances' = FAdd(distances, r.distance)
                   /\ marker_id' = marker_id + 1
                   /\ UNCHANGED <<pc, exit_code>>
    /\ UNCHANGED <<descent, shared, build_debug, options, vcf_in, rec_i, n_markers, positions, alleles,
                   dosages_v, n_normalized, extra, founders_d, haplotypes_m, samples_alts_v,
                   vcf_out>>

\* The loop of fit_founders_alts_vector ends; run() goes on to write_vcf.
FitEnd ==
    /\ pc = "fit"
    /\ marker_id = Len(founders_alts_v)
    /\ pc' = "write_vcf"
    /\ UNCHANGED <<mip_rows, descent, shared, build_debug, options, vcf_in, rec_i, n_markers, positions, alleles,
                   dosages_v, n_normalized, extra, founders_d, haplotypes_m, founders_alts_v,
                   samples_alts_v, marker_id, distances, vcf_out, exit_code>>

\* The record write_vcf writes for marker m (1-based here, marker_id = m - 1).
write_record(m) ==
    [rID |-> positions[m][1], beginPos |-> positions[m][2], id |-> appendNumber(m - 1),
     ref |-> alleles[m][1], alt |-> alleles[m][2], format |-> <<"G", "T">>,
     genotypeInfos |->
         [s \in 1 .. Len(samples_alts_v[1]) |->
             write_genotype(read_view(samples_alts_v[m], founders_alts_v[m])[s])]]

\* write_vcf, then run() and main() return 0.  With no marker loaded
\* samples_alts_v.front() is undefined behaviour: the process dies on a signal,
\* or goes on with some n_samples and writes a header without records.
WriteVcf ==
    /\ pc = "write_vcf"
    /\ IF samples_alts_v = <<>>
       THEN \E outcome \in {"crashed", "done"} :
                /\ pc' = outcome
                /\ exit_code' = IF outcome = "crashed" THEN 139 ELSE 0
                /\ vcf_out' = [written |-> outcome = "done", records |-> <<>>]
       ELSE /\ vcf_out' = [written |-> TRUE,
                           records |-> [m \in 1 .. Len(samples_alts_v) |-> write_record(m)]]
            /\ pc' = "done"
            /\ exit_code' = 0
    /\ UNCHANGED <<mip_rows, descent, shared, build_debug, options, vcf_in, rec_i, n_markers, positions, alleles,
                   dosages_v, n_normalized, extra, founders_d, haplotypes_m, founders_alts_v,
                   samples_alts_v, marker_id, distances>>

----------------------------------------------------------------------------
(* Inputs *)

\* REF and ALT columns: a biallelic marker (lower-case and non-IUPAC letters
\* in REF) and a multi-allelic one.
RefAlts ==
    {[ref |-> <<"a", "x">>, alt |-> <<"T">>],
     [ref |-> <<"G">>, alt |-> <<"C", ",", "T">>]}

\* Genotype columns of one record, two samples each: known genotypes (one with
\* a second FORMAT field); a three-allele genotype ending in '.' beside a known
\* one; unknown genotypes only; a three-allele genotype after a known one;
\* genotypes with one '.', as first and as last allele; a genotype without
\* any allele (an empty first FORMAT field) after a known one.
GenotypeColumns ==
    {<< <<"0", "|", "1", ":", "7">>, <<"1", "/", "1">> >>,
     << <<"0", "/", "1">>, <<":", "5">> >>,
     << <<"0", "/", "1", "/", ".">>, <<"0", "/", "0">> >>,
     << <<".", "/", ".">>, <<".", "/", ".">> >>,
     << <<"0", "/", "1">>, <<"0", "/", "1", "/", "1">> >>,
     << <<".", "|", "1">>, <<"1", "|", ".">> >>}

RecordKinds == {[ref |-> ra.ref, alt |-> ra.alt, genotypeInfos |-> g] :
                    ra \in RefAlts, g \in GenotypeColumns}

\* The records of a file: record i (1-based) of contig 0 at position i - 1.
vcf_records(kinds) ==
    [i \in 1 .. Len(kinds) |->
        [rID |-> 0, beginPos |-> i - 1, ref |-> kinds[i].ref, alt |-> kinds[i].alt,
         genotypeInfos |-> kinds[i].genotypeInfos]]

InputFiles == {vcf_records(kinds) : kinds \in UNION {[1 .. n -> RecordKinds] : n \in 0 .. MaxRecords}}

\* The state main() hands to run(): nothing read, nothing written.  --markers
\* is the default 1 or a count above the number of records.
Init ==
    /\ build_debug \in BOOLEAN
    /\ options \in [n_founders : 1 .. MaxFounders, n_samples : 1 .. MaxRunSamples,
                    n_markers : {1, MaxRecords + 1}, seed : 0 .. MaxSeed, mip : BOOLEAN]
    /\ vcf_in \in InputFiles
    /\ pc = "read_vcf"
    /\ rec_i = 0
    /\ n_markers = options.n_markers
    /\ positions = <<>>
    /\ alleles = <<>>
    /\ dosages_v = <<>>
    /\ n_normalized = 0
    /\ extra = [borrow |-> 0, low |-> 0]
    /\ founders_d = <<>>
    /\ haplotypes_m = <<>>
    /\ founders_alts_v = <<>>
    /\ samples_alts_v = <<>>
    /\ marker_id = 0
    /\ distances = FromInt(0)
    /\ mip_rows = <<>>
    /\ descent = descent_idle
    /\ shared = shared_idle
    /\ vcf_out = [written |-> FALSE, records |-> <<>>]
    /\ exit_code = -1

Next ==
    \/ ReadRecord
    \/ ReadEnd
    \/ Normalize
    \/ SimulateFoundersDistribution
    \/ SimulateHaplotypesMap
    \/ SimulateHaplotypesMapOverflow
    \/ Resize
    \/ FitMarker
    \/ FitEnd
    \/ WriteVcf

Spec == Init /\ [][Next]_vars

----------------------------------------------------------------------------
(* Runs that start where read_vcf has returned one marker *)

\* Raw per-marker distributions: counts of known genotypes per dosage.
RawDistributions ==
    {raw \in [1 .. n_ploidy + 1 -> 0 .. MaxRaw] : Sum(raw) \in 1 .. MaxRaw}

\* The genotype string of a sample carrying p alternate alleles.
genotype_info(p) ==
    [i \in 1 .. 2 * n_ploidy - 1 |->
        IF i % 2 = 0 THEN "/" ELSE IF (i + 1) \div 2 > n_ploidy - p THEN "1" ELSE "0"]

RECURSIVE genotype_infos(_, _)
genotype_infos(raw, p) ==
    IF p > n_ploidy THEN <<>>
    ELSE [i \in 1 .. raw[p + 1] |-> genotype_info(p)] \o genotype_infos(raw, p + 1)

\* A one-record file whose known genotypes have the raw distribution raw; with
\* raw all zero its only genotype is unknown.
marker_file(raw) ==
    vcf_records(<<[ref |-> <<"a", "x">>, alt |-> <<"T">>,
                   genotypeInfos |-> IF Sum(raw) = 0 THEN << <<".", "/", ".">> >>
                                     ELSE genotype_infos(raw, 0)]>>)

\* The state of run() after read_vcf has returned, for a one-record file whose
\* genotypes were counted into dd.
AfterReadDosages(file, dd, n_founders, n_samples, mip, debug) ==
    /\ build_debug = debug
    /\ options = [n_founders |-> n_founders, n_samples |-> n_samples, n_markers |-> 1,
                  seed |-> 0, mip |-> mip]
    /\ vcf_in = file
    /\ pc = "normalize"
    /\ rec_i = 1
    /\ n_markers = 1
    /\ positions = << <<file[1].rID, file[1].beginPos>> >>
    /\ alleles = <<read_alleles(file[1])>>
    /\ dosages_v = <<dd>>
    /\ n_normalized = 0
    /\ extra = [borrow |-> 0, low |-> 0]
    /\ founders_d = <<>>
    /\ haplotypes_m = <<>>
    /\ founders_alts_v = <<>>
    /\ samples_alts_v = <<>>
    /\ marker_id = 0
    /\ distances = FromInt(0)
    /\ mip_rows = <<>>
    /\ descent = descent_idle
    /\ shared = shared_idle
    /\ vcf_out = [written |-> FALSE, records |-> <<>>]
    /\ exit_code = -1

\* The state of run() after read_vcf has returned, for a one-record file.
AfterRead(file, n_founders, n_samples, mip, debug) ==
    AfterReadDosages(file, read_dosages_d(file[1].genotypeInfos), n_founders, n_samples,
                     mip, debug)

\* Valid configurations and one marker with known genotypes.
InitSim ==
    \E raw \in RawDistributions, n_samples \in 1 .. MaxSamples, mip \in BOOLEAN :
        \E n_founders \in 1 .. MaxFounders :
            /\ founders_fit(n_founders, n_samples)
            /\ AfterRead(marker_file(raw), n_founders, n_samples, mip, TRUE)

NextSim ==
    \/ Normalize
    \/ SimulateFoundersDistribution
    \/ SimulateHaplotypesMap
    \/ Resize
    \/ FitMarker
    \/ FitEnd
    \/ WriteVcf

SpecSim == InitSim /\ [][NextSim]_vars

\* Bounds of the runs of the greedy fitter: known genotypes counted into the
\* raw distribution of the marker, and --founders.
MaxGreedyRaw == 20
MaxGreedyFounders == 2

\* Valid configurations fitted by descent_fitting, and one marker with up to
\* MaxGreedyRaw known genotypes.
InitGreedy ==
    \E raw \in {r \in [1 .. n_ploidy + 1 -> 0 .. MaxGreedyRaw] : Sum(r) \in 1 .. MaxGreedyRaw},
       n_samples \in 1 .. MaxSamples, n_founders \in 1 .. MaxGreedyFounders :
        /\ founders_fit(n_founders, n_samples)
        /\ AfterRead(marker_file(raw), n_founders, n_samples, FALSE, TRUE)

NextGreedy ==
    \/ Normalize
    \/ SimulateFoundersDistribution
    \/ SimulateHaplotypesMap
    \/ Resize
    \/ FitMarker
    \/ FitEnd
    \/ WriteVcf

SpecGreedy == InitGreedy /\ [][NextGreedy]_vars

\* The largest instantiation main() selects: run<8>.
MaxPloidy == 8

\* Bounds of the runs that normalize twice: known genotypes counted into the
\* raw distribution, --samples, and the count of the most frequent dosage of a
\* skewed marker.
MaxNormRaw == 5
MaxNormSamples == 3
MaxNormMajor == 25

\* The genotype string of a sample carrying p alternate alleles out of ploidy.
genotype_info_of(ploidy, p) ==
    [i \in 1 .. 2 * ploidy - 1 |->
        IF i % 2 = 0 THEN "/" ELSE IF (i + 1) \div 2 > ploidy - p THEN "1" ELSE "0"]

\* The genotypes of a marker with raw distribution raw, of ploidy Len(raw) - 1.
RECURSIVE genotype_infos_of(_, _)
genotype_infos_of(raw, p) ==
    IF p > Len(raw) - 1 THEN <<>>
    ELSE [i \in 1 .. raw[p + 1] |-> genotype_info_of(Len(raw) - 1, p)]
             \o genotype_infos_of(raw, p + 1)

\* The loop over vcf_record.genotypeInfos in run<ploidy>, on genotypes that
\* are all known and of that ploidy: dosages_d[get_dosage(genotype, '1')]++.
RECURSIVE count_dosages(_, _)
count_dosages(infos, dd) ==
    IF infos = <<>> THEN dd
    ELSE count_dosages(Tail(infos),
             [dd EXCEPT ![get_dosage(read_genotype(Head(infos)), "1") + 1] =
                            FAdd(@, FromInt(1))])

\* Markers of the largest ploidy with one dosage counted up to MaxNormMajor
\* times and every other dosage once.
SkewedDistributions ==
    {[p \in 1 .. MaxPloidy + 1 |-> IF p = k THEN major ELSE 1] :
        k \in 1 .. MaxPloidy + 1, major \in 1 .. MaxNormMajor}

skewed_file(raw) ==
    vcf_records(<<[ref |-> <<"a", "x">>, alt |-> <<"T">>,
                   genotypeInfos |-> genotype_infos_of(raw, 0)]>>)

\* One marker normalized twice: in run<2> with its genotypes known or all
\* unknown, or in run<8> with a skewed distribution.
InitNorm ==
    \E n_samples \in 1 .. MaxNormSamples :
        \/ \E raw \in {r \in [1 .. n_ploidy + 1 -> 0 .. MaxNormRaw] : Sum(r) <= MaxNormRaw} :
               AfterRead(marker_file(raw), 1, n_samples, FALSE, TRUE)
        \/ \E raw \in SkewedDistributions :
               AfterReadDosages(skewed_file(raw),
                                count_dosages(skewed_file(raw)[1].genotypeInfos,
                                              [p \in 1 .. MaxPloidy + 1 |-> FromInt(0)]),
                                1, n_samples, FALSE, TRUE)

NextNorm ==
    \/ Normalize
    \/ Renormalize

SpecNorm == InitNorm /\ [][NextNorm]_vars

----------------------------------------------------------------------------
(* Runs that follow one call of descent_fitting::fit *)

\* The state of run() when fit_founders_alts_vector starts, for a one-record
\* file, a founders distribution fd and a haplotypes map hm.
AtFit(file, n_founders, n_samples, mip, debug, fd, hm) ==
    /\ build_debug = debug
    /\ options = [n_founders |-> n_founders, n_samples |-> n_samples, n_markers |-> 1,
                  seed |-> 0, mip |-> mip]
    /\ vcf_in = file
    /\ pc = "fit"
    /\ rec_i = 1
    /\ n_markers = 1
    /\ positions = << <<file[1].rID, file[1].beginPos>> >>
    /\ alleles = <<read_alleles(file[1])>>
    /\ dosages_v = normalize_dosages_vector(
                       <<read_dosages_d(file[1].genotypeInfos)>>,
                       n_samples)
    /\ n_normalized = 1
    /\ extra = [borrow |-> 0, low |-> n_samples * n_ploidy - n_founders]
    /\ founders_d = fd
    /\ haplotypes_m = hm
    /\ founders_alts_v = <<[f \in 1 .. n_founders |-> 0]>>
    /\ samples_alts_v = fill_samples_alts_vector(1, hm)
    /\ marker_id = 0
    /\ distances = FromInt(0)
    /\ mip_rows = <<>>
    /\ descent = descent_idle
    /\ shared = shared_idle
    /\ vcf_out = [written |-> FALSE, records |-> <<>>]
    /\ exit_code = -1

\* Valid configurations, every founders distribution and map the simulation
\* can draw, and one marker whose genotypes are known or all unknown.
InitDescent ==
    \E raw \in RawDistributions \cup {[p \in 1 .. n_ploidy + 1 |-> 0]},
       n_samples \in 1 .. MaxSamples, n_founders \in 1 .. MaxFounders :
        /\ founders_fit(n_founders, n_samples)
        /\ \E fd \in simulate_founders_distribution(n_founders, n_samples) :
               \E hm \in simulate_haplotypes_map(fd, n_samples) :
                   AtFit(marker_file(raw), n_founders, n_samples, FALSE, TRUE, fd, hm)

NextDescent ==
    \/ DescentStart
    \/ DescentProbeSet
    \/ DescentProbeRevert
    \/ DescentSelect
    \/ DescentReturn

SpecDescent == InitDescent /\ [][NextDescent]_vars

----------------------------------------------------------------------------
(* Two calls of mip_fitting::fit on one mip_fitting instance, interleaved at
   the steps add rows / solve / read back / erase rows.  run() never does this:
   the calls are those fit_founders_alts_vector makes for markers 0 and 1, here
   started in any order and at any time. *)

MaxSharedRaw == 1       \* known genotypes in the second marker of these runs
MaxSharedFounders == 2  \* --founders in these runs

Calls == {1, 2}

other(c) == 3 - c

\* The handles mip.addRow returns for the rows of one call: ids never used before.
new_handles(next_id) == next_id .. next_id + 2 * (n_ploidy + 1) - 1

\* mip.erase that removes nothing.
mip_erase_nothing(entries, ids, handles) == entries

\* mip.erase(row) for every handle in mip_dosages_plus and mip_dosages_minus:
\* the entries (rows, or their ids) left when the rows with these ids go.
RECURSIVE mip_erase(_, _, _)
mip_erase(entries, ids, handles) ==
    IF entries = <<>> THEN <<>>
    ELSE (IF Head(ids) \in handles THEN <<>> ELSE <<Head(entries)>>)
             \o mip_erase(Tail(entries), Tail(ids), handles)

in_progress(c) == shared.pc[c] \in {"added", "solved", "read"}

\* Lines 755-761: the rows of the call's target are added and their handles
\* stored in the member arrays, over whatever handles these held.
SharedAdd ==
    \E c \in Calls :
        /\ pc = "fit" /\ options.mip
        /\ shared.pc[c] = "idle"
        /\ mip_rows' = mip_add_rows(mip_rows, dosages_v[c])
        /\ shared' = [shared EXCEPT
                          !.pc[c] = "added",
                          !.ids = @ \o [i \in 1 .. 2 * (n_ploidy + 1) |-> shared.next_id + i - 1],
                          !.next_id = @ + 2 * (n_ploidy + 1),
                          !.handles = new_handles(shared.next_id),
                          !.overlapped = @ \/ in_progress(other(c))]
        /\ UNCHANGED <<descent, build_debug, options, vcf_in, pc, rec_i, n_markers, positions,
                       alleles, dosages_v, n_normalized, extra, founders_d, haplotypes_m,
                       founders_alts_v, samples_alts_v, marker_id, distances, vcf_out,
                       exit_code>>

\* Line 764: mip.solve() on the rows the model holds now; the solution stays
\* in the solver object.
SharedSolve ==
    \E c \in Calls :
        /\ pc = "fit"
        /\ shared.pc[c] = "added"
        /\ \E x \in mip_solve(haplotypes_m, options.n_founders, mip_rows) :
               shared' = [shared EXCEPT !.pc[c] = "solved",
                                        !.sol = [alts |-> x.alts, objective |-> x.objective]]
        /\ UNCHANGED <<mip_rows, descent, build_debug, options, vcf_in, pc, rec_i, n_markers,
                       positions, alleles, dosages_v, n_normalized, extra, founders_d,
                       haplotypes_m, founders_alts_v, samples_alts_v, marker_id, distances,
                       vcf_out, exit_code>>

\* Lines 766-801: the distance and the founder alleles are read from the
\* solution the solver object holds now.
SharedRead ==
    \E c \in Calls :
        /\ pc = "fit"
        /\ shared.pc[c] = "solved"
        /\ founders_alts_v' = [founders_alts_v EXCEPT ![c] = shared.sol.alts]
        /\ \E distance \in mip_distance(shared.sol.objective) :
               shared' = [shared EXCEPT
                              !.pc[c] = "read",
                              !.results[c] = [alts |-> shared.sol.alts,
                                              distance |-> distance]]
        /\ UNCHANGED <<mip_rows, descent, build_debug, options, vcf_in, pc, rec_i, n_markers,
                       positions, alleles, dosages_v, n_normalized, extra, founders_d,
                       haplotypes_m, samples_alts_v, marker_id, distances, vcf_out,
                       exit_code>>

\* Lines 804-806: the rows the member arrays name are erased and the distance
\* returned.  Erasing a row that was erased before is undefined in the
\* solver library: the process dies, and no call goes on after that, or the
\* erase has no effect.
SharedErase ==
    \E c \in Calls :
        /\ pc = "fit"
        /\ shared.pc[c] = "read"
        /\ \E outcome \in IF shared.handles \subseteq {shared.ids[i] : i \in 1 .. Len(shared.ids)}
                            THEN {"erased"} ELSE {"erased", "aborted"} :
               IF outcome = "aborted"
               THEN /\ pc' = "aborted"
                    /\ exit_code' = 134
                    /\ UNCHANGED <<mip_rows, shared, marker_id, distances>>
               ELSE /\ mip_rows' = mip_erase(mip_rows, shared.ids, shared.handles)
                    /\ shared' = [shared EXCEPT
                                      !.pc[c] = "returned",
                                      !.ids = mip_erase(shared.ids, shared.ids, shared.handles)]
                    /\ distances' = FAdd(distances, shared.results[c].distance)
                    /\ marker_id' = marker_id + 1
                    /\ UNCHANGED <<pc, exit_code>>
        /\ UNCHANGED <<descent, build_debug, options, vcf_in, rec_i, n_markers, positions,
                       alleles, dosages_v, n_normalized, extra, founders_d, haplotypes_m,
                       founders_alts_v, samples_alts_v, vcf_out>>

\* The state of run() when fit_founders_alts_vector starts on the MIP fitter,
\* for a file of two markers with raw distributions raws.
AtSharedFit(raws, n_founders, n_samples, fd, hm) ==
    LET file == vcf_records([k \in 1 .. 2 |->
                    [ref |-> <<"a", "x">>, alt |-> <<"T">>,
                     genotypeInfos |-> genotype_infos(raws[k], 0)]])
    IN  /\ build_debug = TRUE
        /\ options = [n_founders |-> n_founders, n_samples |-> n_samples, n_markers |-> 1,
                      seed |-> 0, mip |-> TRUE]
        /\ vcf_in = file
        /\ pc = "fit"
        /\ rec_i = 2
        /\ n_markers = 2
        /\ positions = [k \in 1 .. 2 |-> <<file[k].rID, file[k].beginPos>>]
        /\ alleles = [k \in 1 .. 2 |-> read_alleles(file[k])]
        /\ dosages_v = normalize_dosages_vector(
                           [k \in 1 .. 2 |->
                               read_dosages_d(file[k].genotypeInfos)],
                           n_samples)
        /\ n_normalized = 1
        /\ extra = [borrow |-> 0, low |-> n_samples * n_ploidy - n_founders]
        /\ founders_d = fd
        /\ haplotypes_m = hm
        /\ founders_alts_v = [k \in 1 .. 2 |-> [f \in 1 .. n_founders |-> 0]]
        /\ samples_alts_v = fill_samples_alts_vector(2, hm)
        /\ marker_id = 0
        /\ distances = FromInt(0)
        /\ mip_rows = <<>>
        /\ descent = descent_idle
        /\ shared = [shared_idle EXCEPT
                         !.results = [k \in 1 .. 2 |->
                                         [alts |-> <<>>, distance |-> FromInt(0)]]]
        /\ vcf_out = [written |-> FALSE, records |-> <<>>]
        /\ exit_code = -1

InitShared ==
    \E raw1 \in RawDistributions,
       raw2 \in {raw \in RawDistributions : Sum(raw) <= MaxSharedRaw},
       n_samples \in 1 .. MaxSamples, n_founders \in 1 .. MaxSharedFounders :
        /\ founders_fit(n_founders, n_samples)
        /\ \E fd \in simulate_founders_distribution(n_founders, n_samples) :
               \E hm \in simulate_haplotypes_map(fd, n_samples) :
                   AtSharedFit(<<raw1, raw2>>, n_founders, n_samples, fd, hm)

NextShared ==
    \/ SharedAdd
    \/ SharedSolve
    \/ SharedRead
    \/ SharedErase

SpecShared == InitShared /\ [][NextShared]_vars

----------------------------------------------------------------------------
(* Properties *)

\* D(f): the distribution a founder vector induces through the haplotype map.
induced(hm, alts) == make_dosages_distribution(read_view(fill_samples_alts(hm), alts))

FounderVectors(n_founders) == [1 .. n_founders -> {0, 1}]

\* The marker of a one-marker run has been fitted.
Fitted == pc \in {"fit", "write_vcf", "done"} /\ marker_id = 1

Target == dosages_v[1]

IsIntegral(dd) == \A p \in 1 .. Len(dd) : IsNumber(dd[p]) /\ dd[p][2] = 1

\* Every (sample, haplotype) slot has a founder of its own.
IsBijection(hm, n_founders) ==
    /\ n_founders = Len(hm) * n_ploidy
    /\ \A f \in 0 .. n_founders - 1 :
           Cardinality({sh \in (1 .. Len(hm)) \X (1 .. n_ploidy) : hm[sh[1]][sh[2]] = f}) = 1

\* The L1 distance between the float distribution a and the integer
\* distribution b as a real number: no term and no partial sum is rounded.
exact_l1(a, b) == DSum([p \in 1 .. Len(a) |-> FAbs(DSub(a[p], DFromInt(b[p])))])

\* C1: the distance mip_fitting::fit returns is the smallest L1 distance to the
\* target over all 0/1 founder vectors, as the float nearest to it, and the
\* vector it writes back attains that minimum; on the map sample0:[f0,f0],
\* sample1:[f1,f1] with target [1,0,1] the distance is 0 and exactly one of
\* f0, f1 is set.
C1_MipReturnsMinimum ==
    (Fitted /\ options.mip) =>
        /\ \A alts \in FounderVectors(options.n_founders) :
               ~FLess(exact_l1(Target, induced(haplotypes_m, alts)),
                      exact_l1(Target, induced(haplotypes_m, founders_alts_v[1])))
        /\ distances \in Round32Near(exact_l1(Target, induced(haplotypes_m, founders_alts_v[1])))
        /\ (/\ haplotypes_m = << <<0, 0>>, <<1, 1>> >>
            /\ Target = <<FromInt(1), FromInt(0), FromInt(1)>>)
           => (distances = FromInt(0) /\ founders_alts_v[1] \in {<<0, 1>>, <<1, 0>>})

\* C1 witness: the scenario of the specification has been fitted by the MIP.
C1_Witness ==
    /\ Fitted /\ options.mip
    /\ haplotypes_m = << <<0, 0>>, <<1, 1>> >>
    /\ Target = <<FromInt(1), FromInt(0), FromInt(1)>>
    /\ founders_alts_v[1] = <<0, 1>>

\* C2 as stated: under a bijection between founders and haplotype slots the
\* MIP fitter returns distance 0 and achieves the target, for every normalized
\* target.
C2_BijectionExact ==
    (Fitted /\ options.mip /\ IsBijection(haplotypes_m, options.n_founders)) =>
        /\ distances = FromInt(0)
        /\ \A p \in 1 .. n_ploidy + 1 :
               FromInt(induced(haplotypes_m, founders_alts_v[1])[p]) = Target[p]

\* C2 amended: under a bijection between founders and haplotype slots the MIP
\* fitter returns distance 0 and achieves the target, for every normalized
\* target whose entries are integers.
C2_BijectionExactIntegral ==
    (Fitted /\ options.mip /\ IsBijection(haplotypes_m, options.n_founders)
        /\ IsIntegral(Target)) =>
        /\ distances = FromInt(0)
        /\ \A p \in 1 .. n_ploidy + 1 :
               FromInt(induced(haplotypes_m, founders_alts_v[1])[p]) = Target[p]

\* C2 witness: two samples on four founders of their own, fitted by the MIP to
\* an integral target that needs founders set.
C2_Witness ==
    /\ Fitted /\ options.mip
    /\ options.n_samples = 2
    /\ IsBijection(haplotypes_m, options.n_founders)
    /\ Target = <<FromInt(0), FromInt(1), FromInt(1)>>
    /\ distances = FromInt(0)

occurrences(hm, f) ==
    Cardinality({sh \in (1 .. Len(hm)) \X (1 .. n_ploidy) : hm[sh[1]][sh[2]] = f})

\* C4: in a valid configuration the founders distribution has every entry >= 1
\* and sums to n_samples * n_ploidy; the map built from it has n_samples rows
\* of n_ploidy founder ids below n_founders, and founder f occurs in it exactly
\* founders_d[f] times.
C4_MapMultiplicities ==
    /\ (pc \in {"haplotypes", "resize", "fit", "write_vcf", "done"}) =>
           /\ Len(founders_d) = options.n_founders
           /\ \A f \in 1 .. Len(founders_d) : founders_d[f] >= 1
           /\ Sum(founders_d) = options.n_samples * n_ploidy
    /\ (pc \in {"resize", "fit", "write_vcf", "done"}) =>
           /\ Len(haplotypes_m) = options.n_samples
           /\ \A s \in 1 .. Len(haplotypes_m) :
                  /\ Len(haplotypes_m[s]) = n_ploidy
                  /\ \A h \in 1 .. n_ploidy : haplotypes_m[s][h] \in 0 .. options.n_founders - 1
           /\ \A f \in 1 .. options.n_founders :
                  occurrences(haplotypes_m, f - 1) = founders_d[f]

\* C4 witness: a map built from an uneven distribution, shuffled out of the
\* order of the fill.
C4_Witness ==
    /\ pc = "resize"
    /\ founders_d = <<1, 3>>
    /\ haplotypes_m = << <<1, 0>>, <<1, 1>> >>

\* C5: after normalization the entries of every marker's distribution sum to
\* n_samples.
C5_SumsToSamples ==
    (n_normalized >= 1) =>
        \A m \in 1 .. Len(dosages_v) : FSum(dosages_v[m]) = FromInt(options.n_samples)

\* C6 as stated: normalizing a distribution already normalized to the same
\* sample count changes no entry.
C6_NormalizeIdempotent ==
    [][(n_normalized = 1 /\ n_normalized' = 2) => dosages_v' = dosages_v]_vars

\* The floats a and b differ by at most |a| * 2^-k.
Within(a, b, k) ==
    LET d == Max(a[2], b[2])
        x == a[1] * (d \div a[2])
        y == b[1] * (d \div b[2])
    IN  Abs(x - y) <= Abs(x) \div TwoPow(k)

\* The floats a and b differ by at most |a| * 2^-19; NaN is near NaN only.
IsNear(a, b) ==
    IF ~IsNumber(a) \/ ~IsNumber(b) THEN a = b ELSE Within(a, b, MantissaBits - 5)

\* C6 amended: normalizing a distribution already normalized to the same
\* sample count changes every entry by at most 2^-19 of its value, NaN staying
\* NaN, and changes no entry of a distribution of integers when
\* n_samples * n_samples is below 2^24.
C6_NormalizeIdempotentRounded ==
    [][(n_normalized = 1 /\ n_normalized' = 2) =>
          /\ Len(dosages_v') = Len(dosages_v)
          /\ \A m \in 1 .. Len(dosages_v) :
                 /\ Len(dosages_v'[m]) = Len(dosages_v[m])
                 /\ \A p \in 1 .. Len(dosages_v[m]) : IsNear(dosages_v[m][p], dosages_v'[m][p])
                 /\ (IsIntegral(dosages_v[m])
                       /\ options.n_samples * options.n_samples < TwoPow(MantissaBits))
                        => dosages_v'[m] = dosages_v[m]]_vars

\* The raw distribution of an octoploid marker: 25 samples at dosage 0, one at
\* every other dosage.
C6_raw == [p \in 1 .. MaxPloidy + 1 |-> FromInt(IF p = 1 THEN 25 ELSE 1)]

\* C6 witness: the raw distribution (25, 1, 1, 1, 1, 1, 1, 1, 1) has been
\* normalized twice to one sample; the float sum of the normalized entries is
\* 1 - 2^-22, and the second normalization moved the entries float(1 / 33) by
\* more than 2^-22 of their value.
C6_Witness ==
    /\ n_normalized = 2
    /\ options.n_samples = 1
    /\ FSum(normalize_dosages_distribution(C6_raw, 1)) = Float(TwoPow(22) - 1, TwoPow(22))
    /\ dosages_v = <<normalize_dosages_distribution(
                         normalize_dosages_distribution(C6_raw, 1), 1)>>
    /\ ~Within(normalize_dosages_distribution(C6_raw, 1)[2], dosages_v[1][2], 22)

\* The allele characters of a genotype string: its first FORMAT field
\* without the separators.
allele_characters(info) == SelectSeq(ReadUntil(info, ":"), LAMBDA c : c \notin {"/", "|"})

\* The allele count of a genotype string differs from the ploidy.
mismatches(info) == Len(allele_characters(info)) # n_ploidy

\* The last allele character; "" when the genotype has none.
last_allele(info) ==
    LET g == allele_characters(info) IN IF g = <<>> THEN "" ELSE g[Len(g)]

has_comma(alt) == \E k \in 1 .. Len(alt) : alt[k] = ","

\* Record i holds a genotype that read_vcf stops on.
raises(i) ==
    /\ ~has_comma(vcf_in[i].alt)
    /\ \E j \in 1 .. Len(vcf_in[i].genotypeInfos) :
           mismatches(vcf_in[i].genotypeInfos[j]) /\ last_allele(vcf_in[i].genotypeInfos[j]) # "."

\* Positions of the biallelic records among the first n records, in input order.
biallelic_positions(n) ==
    LET keep(rec) == ~has_comma(rec.alt)
        kept == SelectSeq(SubSeq(vcf_in, 1, n), keep)
    IN  [k \in 1 .. Len(kept) |-> <<kept[k].rID, kept[k].beginPos>>]

\* C7 as stated: when any genotype of any input marker has an allele count
\* different from the ploidy, the run never gets past read_vcf, writes nothing
\* and ends with status 1.
C7_AnyMismatchFails ==
    (\E i \in 1 .. Len(vcf_in) : \E j \in 1 .. Len(vcf_in[i].genotypeInfos) :
         mismatches(vcf_in[i].genotypeInfos[j]))
    => /\ pc \in {"read_vcf", "exit"}
       /\ ~vcf_out.written
       /\ exit_code \in {-1, 1}

\* Record i holds a genotype of wrong allele count with a last allele, and
\* that allele is not '.'.
raises_on_allele(i) ==
    /\ ~has_comma(vcf_in[i].alt)
    /\ \E j \in 1 .. Len(vcf_in[i].genotypeInfos) :
           /\ mismatches(vcf_in[i].genotypeInfos[j])
           /\ last_allele(vcf_in[i].genotypeInfos[j]) \notin {"", "."}

\* C7 amended: when a genotype of a biallelic marker has an allele count
\* different from the ploidy and its last allele is not '.', the load ends at
\* the first such marker at the latest: read_vcf raises the error there and the process
\* exits with status 1, unless a genotype without any allele read before has
\* ended the process already, by the same error or by a fault.  That marker
\* and the later ones are not loaded, no later record is read, nothing is
\* fitted or written.
C7_KnownMismatchFails ==
    \A i \in 1 .. Len(vcf_in) :
        (raises_on_allele(i) /\ \A k \in 1 .. i - 1 : ~raises_on_allele(k)) =>
            /\ pc \in {"read_vcf", "exit", "crashed"}
            /\ rec_i <= i
            /\ (rec_i = i) => (pc # "read_vcf")
            /\ positions = biallelic_positions(IF pc = "read_vcf" THEN rec_i ELSE rec_i - 1)
            /\ founders_alts_v = <<>> /\ marker_id = 0 /\ haplotypes_m = <<>>
            /\ ~vcf_out.written
            /\ exit_code = (CASE pc = "exit" -> 1 [] pc = "crashed" -> 139 [] OTHER -> -1)
            /\ (\A k \in 1 .. i : \A j \in 1 .. Len(vcf_in[k].genotypeInfos) :
                    last_allele(vcf_in[k].genotypeInfos[j]) # "")
                   => ((rec_i = i) <=> (pc = "exit"))

\* C7 witness: the error was raised at the first of two records; nothing loaded.
C7_Witness ==
    /\ pc = "exit" /\ exit_code = 1
    /\ Len(vcf_in) = 2 /\ rec_i = 1
    /\ raises(1)
    /\ positions = <<>>

\* C8: a configuration with n_founders > n_samples * n_ploidy is rejected before
\* the wrapped trip count is distributed: no map, no fit, no output, and the
\* exit status is not 0.
C8_TooManyFoundersRejected ==
    (~founders_fit(options.n_founders, options.n_samples)) =>
        /\ extra.borrow = 0
        /\ pc \in {"read_vcf", "normalize", "founders", "exit", "aborted"}
        /\ haplotypes_m = <<>>
        /\ ~vcf_out.written
        /\ exit_code # 0

\* The process ended inside read_vcf, on a genotype of the record it was
\* reading: by the IOError, or by the fault of is_unknown.
stopped_in_read == pc = "exit" \/ (pc = "crashed" /\ n_normalized = 0)

\* C9: a multi-allelic record adds nothing and stops nothing: positions,
\* alleles and dosages have equal length at all times and hold the biallelic
\* records read so far, in input order (all of them once read_vcf has
\* returned; all before the offending record when it threw).
C9_MultiallelicSkipped ==
    /\ Len(positions) = Len(alleles) /\ Len(alleles) = Len(dosages_v)
    /\ positions = biallelic_positions(IF stopped_in_read THEN rec_i - 1 ELSE rec_i)
    /\ (pc # "read_vcf" /\ ~stopped_in_read) =>
           /\ rec_i = Len(vcf_in)
           /\ positions = biallelic_positions(Len(vcf_in))
           /\ \A m \in 1 .. Len(positions) :
                  alleles[m] = read_alleles(vcf_in[positions[m][2] + 1])

\* C9 witness: read_vcf has returned from a file whose first record is
\* multi-allelic and whose second is biallelic: only the second is loaded.
C9_Witness ==
    /\ pc = "normalize"
    /\ Len(vcf_in) = 2
    /\ has_comma(vcf_in[1].alt) /\ ~has_comma(vcf_in[2].alt)
    /\ positions = << <<0, 1>> >>

\* C10: every genotype string of the output, read back by read_genotype, has
\* n_ploidy allele characters, the digits of the sample's founder-derived
\* allele values in slot order; the (ref, alt) pair read back from an output
\* record is the pair written, and the record is biallelic.
C10_RoundTrip ==
    (pc = "done" /\ vcf_out.records # <<>>) =>
        \A m \in 1 .. Len(vcf_out.records) :
            /\ read_alleles(vcf_out.records[m]) = alleles[m]
            /\ ~is_polyallelic(vcf_out.records[m])
            /\ Len(vcf_out.records[m].genotypeInfos) = options.n_samples
            /\ \A s \in 1 .. options.n_samples :
                   LET genotype == read_genotype(vcf_out.records[m].genotypeInfos[s])
                   IN  /\ get_ploidy(genotype) = n_ploidy
                       /\ \A h \in 1 .. n_ploidy :
                              genotype[h] = Digit(founders_alts_v[m][haplotypes_m[s][h] + 1])

\* C10 witness: an output with a heterozygous sample has been written.
C10_Witness ==
    /\ pc = "done"
    /\ Len(vcf_out.records) = 1
    /\ vcf_out.records[1].genotypeInfos[1] = <<"0", "|", "1">>
    /\ alleles[1] = << <<"A", "N">>, <<"T">> >>

\* The genotype string of allele values joined with '|' in slot order.
joined(values) ==
    [i \in 1 .. 2 * Len(values) - 1 |->
        IF i % 2 = 0 THEN "|" ELSE Digit(values[(i + 1) \div 2])]

\* C11: from the moment the views are filled, the view of marker m reads, for
\* sample s and slot h, the current value of founders_alts_v[m][haplotypes_m[s][h]];
\* the genotype written for sample s at marker m is the n_ploidy final values
\* of its founders, in slot order, joined with '|'.
C11_ViewReadsThrough ==
    /\ (pc \in {"fit", "write_vcf", "done"}) =>
           \A m \in 1 .. Len(samples_alts_v) : \A s \in 1 .. options.n_samples :
               /\ Len(read_view(samples_alts_v[m], founders_alts_v[m])[s]) = n_ploidy
               /\ \A h \in 1 .. n_ploidy :
                      read_view(samples_alts_v[m], founders_alts_v[m])[s][h]
                          = founders_alts_v[m][haplotypes_m[s][h] + 1]
    /\ (pc = "done") =>
           \A m \in 1 .. Len(vcf_out.records) : \A s \in 1 .. options.n_samples :
               vcf_out.records[m].genotypeInfos[s]
                   = joined([h \in 1 .. n_ploidy |-> founders_alts_v[m][haplotypes_m[s][h] + 1]])

\* C11 witness: two markers fitted to different founder vectors and written;
\* the sample carries founder 0 then founder 1, and only founder 0 is set at
\* the first marker.
C11_Witness ==
    /\ pc = "done"
    /\ Len(vcf_out.records) = 2
    /\ haplotypes_m = << <<0, 1>> >>
    /\ founders_alts_v = << <<1, 0>>, <<0, 0>> >>
    /\ vcf_out.records[1].genotypeInfos[1] = <<"1", "|", "0">>
    /\ vcf_out.records[2].genotypeInfos[1] = <<"0", "|", "0">>

\* Every entry is a number: the marker had a known genotype.
IsKnown(dd) == \A p \in 1 .. Len(dd) : IsNumber(dd[p])

\* The probing pass of the call in progress is over: min_element is next.
AtSelect == descent.pc = "probe" /\ descent.j = Len(descent_founders_alts)

\* The smallest probed distance, as min_element finds it.
min_probed == descent.distances[min_element(descent.distances)]

\* C12 as stated, on a marker with known genotypes: a flip is committed only
\* when the smallest probed distance is strictly smaller than the current
\* distance, so the distance strictly decreases with every commit; when it is
\* equal or larger the fitter stops and commits nothing.
C12_CommitOnlyStrictlySmaller ==
    [][(AtSelect /\ IsKnown(descent_dosages_d_in)) =>
          /\ (descent'.ones = descent.ones + 1) =>
                 /\ FLess(min_probed, descent.distance)
                 /\ FLess(descent'.distance, descent.distance)
          /\ (~FLess(min_probed, descent.distance)) =>
                 /\ descent'.pc = "return"
                 /\ founders_alts_v' = founders_alts_v]_vars

\* The step commits founder k (1-based): it was 0, it is 1, nothing else changed.
commits(k) ==
    /\ descent_founders_alts[k] = 0
    /\ founders_alts_v' = [founders_alts_v EXCEPT ![marker_id + 1][k] = 1]

\* C13: an iteration that commits, commits a founder that was at 0, whose
\* probed distance no founder at 0 undercuts, and which is the lowest-indexed
\* such founder; a founder already at 1 is never selected.
C13_LowestIndexAmongZeros ==
    [][(AtSelect /\ descent'.ones = descent.ones + 1) =>
          \E k \in 1 .. Len(descent_founders_alts) :
              /\ commits(k)
              /\ \A f \in 1 .. Len(descent_founders_alts) :
                     (descent_founders_alts[f] = 0) =>
                         /\ ~FLess(descent.distances[f], descent.distances[k])
                         /\ (f < k) => FLess(descent.distances[k], descent.distances[f])]_vars

\* Founder f (1-based) is at 1 and not merely under probe.
committed(f) ==
    /\ descent_founders_alts[f] = 1
    /\ ~(descent.pc = "revert" /\ descent.j + 1 = f)

\* C14: in a call of descent_fitting::fit, after the reset: every entry stays
\* 0 or 1; a committed founder stays committed and a probe that meets it
\* writes the largest float and touches nothing; a probe sets exactly one
\* entry from 0 to 1 and its second half sets exactly that entry back, so
\* between probes the vector is the committed one and every distance of the
\* pass so far is the distance of that vector with one more founder set.
C14_CommitsArePermanent ==
    [][(descent.pc \in {"probe", "revert"}) =>
          LET n_founders == Len(descent_founders_alts)
              j == descent.j + 1
          IN  /\ founders_alts_v'[marker_id + 1] \in [1 .. n_founders -> {0, 1}]
              /\ \A f \in 1 .. n_founders : committed(f) => committed(f)'
              /\ (descent.pc = "probe" /\ j <= n_founders /\ descent_founders_alts[j] = 1) =>
                     /\ founders_alts_v' = founders_alts_v
                     /\ descent' = [descent EXCEPT !.distances[j] = Huge, !.j = j]
              /\ (descent.pc = "probe" /\ descent'.pc = "revert") =>
                     /\ descent_founders_alts[j] = 0
                     /\ founders_alts_v' = [founders_alts_v EXCEPT ![marker_id + 1][j] = 1]
              /\ (descent.pc = "revert") =>
                     /\ descent_founders_alts[j] = 1
                     /\ founders_alts_v' = [founders_alts_v EXCEPT ![marker_id + 1][j] = 0]
              /\ (descent'.pc = "probe" /\ descent'.ones = descent.ones) =>
                     \A f \in 1 .. descent'.j :
                         descent'.distances[f]
                             = descent_probe(descent_view, founders_alts_v'[marker_id + 1],
                                             descent_dosages_d_in)[f]]_vars

\* C14 witness: with two founders committed, a third is under probe.
C14_Witness ==
    /\ descent.pc = "revert"
    /\ descent.ones = 2
    /\ Len(descent_founders_alts) = 4
    /\ Sum(descent_founders_alts) = 3
    /\ IsKnown(descent_dosages_d_in)

\* The call of descent_fitting::fit on the only marker has returned.
returned == descent.pc = "idle" /\ marker_id = Len(founders_alts_v)

\* Statements a call of descent_fitting::fit has left to run at most: 2 per
\* founder and 1 for the selection in every iteration left, and the return.
remaining ==
    LET n == options.n_founders
        later == (n - descent.ones - 1) * (2 * n + 1)
    IN  CASE returned -> 0
          [] descent.pc = "idle" -> 2 + n * (2 * n + 1)
          [] descent.pc = "return" -> 1
          [] descent.pc = "probe" -> 1 + later + 2 * (n - descent.j) + 1
          [] descent.pc = "revert" -> 1 + later + 2 * (n - descent.j)

\* C15: descent_fitting::fit terminates within n_founders iterations.  Every
\* statement it runs lowers the count of statements left, which never goes
\* below 0 and is 0 only once the call has returned; until then a statement
\* is ready to run.  A probing pass only runs while fewer than n_founders
\* iterations have committed, so at most n_founders flips are committed.
C15_DescentTerminates ==
    [][/\ remaining' < remaining
       /\ remaining' >= 0
       /\ (remaining' = 0) <=> returned'
       /\ (~returned') =>
              \/ descent'.pc \in {"revert", "return"}
              \/ descent'.pc = "probe" /\ descent'.j <= options.n_founders
       /\ (descent'.pc \in {"probe", "revert"}) => descent'.ones < options.n_founders
       /\ descent'.ones <= options.n_founders]_vars

\* C15 witness: a call has returned after n_founders iterations, every one of
\* the four founders committed.
C15_Witness ==
    /\ descent.pc = "idle" /\ marker_id = 1
    /\ options.n_founders = 4
    /\ descent.ones = 4
    /\ founders_alts_v[1] = <<1, 1, 1, 1>>
    /\ IsKnown(dosages_v[1])

\* What mip_fitting::fit can return for marker m on a model that holds no
\* temporary row.
fresh_fits(m) ==
    {r \in mip_fit(haplotypes_m, options.n_founders, dosages_v[m], <<>>, build_debug) :
         ~r.aborted}

\* C16: whenever mip_fitting::fit has returned, the model holds no temporary
\* row; so the founder vector of every fitted marker is one the fitter returns
\* for that marker's target on the skeleton alone, and the distances add up
\* to the distances of these fits, whatever was fitted before.
C16_ModelRestored ==
    /\ (pc # "aborted") => mip_rows = <<>>
    /\ (pc \in {"fit", "write_vcf", "done"} /\ options.mip) =>
           /\ \A m \in 1 .. marker_id :
                  \E r \in fresh_fits(m) : r.alts = founders_alts_v[m]
           /\ \E ds \in [1 .. marker_id -> {r.distance : r \in UNION {fresh_fits(m) : m \in 1 .. marker_id}}] :
                  /\ \A m \in 1 .. marker_id : \E r \in fresh_fits(m) : r.distance = ds[m]
                  /\ distances = FSum(ds)

\* C16 witness: the MIP fitter has fitted two markers with different targets,
\* the second exactly.
C16_Witness ==
    /\ pc = "write_vcf" /\ options.mip
    /\ marker_id = 2
    /\ dosages_v = << <<FromInt(0), Float(1, 2), Float(1, 2)>>,
                      <<FromInt(1), FromInt(0), FromInt(0)>> >>
    /\ founders_alts_v[1] # founders_alts_v[2]
    /\ distances = FromInt(1)

\* The MIP fitter has fitted the marker of a one-marker run.
MipFitted == Fitted /\ options.mip /\ pc # "aborted"

\* The feasible points of the model mip_fitting::fit solved for that marker.
Solutions == mip_feasible(haplotypes_m, options.n_founders, mip_add_rows(mip_rows, Target))

\* C17: in every feasible point of the MIP the dosages d sum to the number of
\* samples, and the assertion on the read-back distribution never aborts a fit.
C17_DosagesSumToSamples ==
    /\ pc # "aborted"
    /\ MipFitted =>
           \A x \in Solutions : Sum(x.dosages) = Len(haplotypes_m)

\* C17 witness: a fit of two samples whose solution has one at dosage 0 and
\* one at dosage 2, on a uniform target.
C17_Witness ==
    /\ MipFitted
    /\ options.n_samples = 2
    /\ \E x \in Solutions : x.alts = founders_alts_v[1] /\ x.dosages = <<1, 0, 1>>
    /\ Target = <<FDiv(FromInt(2), FromInt(3)), FDiv(FromInt(2), FromInt(3)), FDiv(FromInt(2), FromInt(3))>>

\* C18: for every map, founder count and target with non-negative entries,
\* every 0/1 founder vector extends to a feasible point of the MIP, no
\* feasible point has an objective below 0, an optimum exists, and the
\* assertion on the solver outcome never aborts a fit.
C18_FeasibleAndBounded ==
    /\ (pc = "aborted") => ~options.mip
    /\ MipFitted =>
           LET solutions == Solutions
           IN  /\ \A alts \in FounderVectors(options.n_founders) :
                      \E x \in solutions : x.alts = alts
               /\ \A x \in solutions : ~FLess(x.objective, FromInt(0))
               /\ mip_solve(haplotypes_m, options.n_founders,
                            mip_add_rows(mip_rows, Target)) # {}

\* C18 witness: a fit on three founders, one sample carrying a founder twice,
\* with a target no founder vector reaches.
C18_Witness ==
    /\ MipFitted
    /\ options.n_founders = 3
    /\ haplotypes_m = << <<0, 0>>, <<1, 2>> >>
    /\ Target = <<FromInt(0), FromInt(2), FromInt(0)>>
    /\ distances = FromInt(2)

\* C19: in every feasible point of the MIP, the indicator of sample s at
\* dosage p is 1 when p is the sum of the founder alleles over the sample's
\* slots and 0 otherwise, and d_p is the number of samples of induced dosage p.
C19_IndicatorsMatchDosage ==
    MipFitted =>
        \A x \in Solutions :
            /\ \A sample \in 1 .. Len(haplotypes_m) : \A p \in Dosages :
                   x.indicators[sample][p + 1]
                       = IF p = mip_sample_sum(haplotypes_m, x.alts, sample) THEN 1 ELSE 0
            /\ x.dosages = induced(haplotypes_m, x.alts)

\* C19 witness: a feasible point of a fitted model with one sample at dosage 1
\* and one at dosage 2.
C19_Witness ==
    /\ MipFitted
    /\ haplotypes_m = << <<0, 1>>, <<1, 1>> >>
    /\ \E x \in Solutions :
           /\ x.alts = <<0, 1>>
           /\ x.indicators = << <<0, 1, 0>>, <<0, 0, 1>> >>
           /\ x.dosages = <<0, 1, 1>>

\* The distances the active fitter can return for marker m together with the
\* founder vector alts.
distances_with(m, alts) ==
    {r.distance : r \in {x \in fit(options.mip, haplotypes_m, options.n_founders,
                                     dosages_v[m], <<>>, build_debug) :
                             ~x.aborted /\ x.alts = alts}}

\* The same for the founder vector marker m has now.
returned_distances(m) == distances_with(m, founders_alts_v[m])

\* The values distances can have after the calls for markers 1 .. m.
RECURSIVE aggregates(_)
aggregates(m) ==
    IF m = 0 THEN {FromInt(0)}
    ELSE {FAdd(a, d) : a \in aggregates(m - 1), d \in returned_distances(m)}

\* C20: fit_founders_alts_vector calls the active fitter once per marker in
\* increasing marker order, each call on that marker's own founder vector and
\* target and after the previous call has returned, and the aggregate is the
\* sum of the distances the calls returned.
C20_OneFitPerMarkerInOrder ==
    /\ [](/\ pc \in {"read_vcf", "normalize", "founders", "haplotypes", "resize"} => marker_id = 0
          /\ pc \in {"fit", "write_vcf", "done"} =>
                 /\ marker_id <= Len(founders_alts_v)
                 /\ Len(founders_alts_v) = Len(dosages_v)
                 /\ \A m \in marker_id + 1 .. Len(founders_alts_v) :
                        \A f \in 1 .. Len(founders_alts_v[m]) : founders_alts_v[m][f] = 0
                 /\ \A m \in 1 .. marker_id : returned_distances(m) # {}
                 /\ distances \in aggregates(marker_id)
          /\ pc \in {"write_vcf", "done"} => marker_id = Len(dosages_v))
    /\ [][pc = "fit" /\ pc' # "aborted" =>
              \/ /\ marker_id' = marker_id /\ pc' = "write_vcf"
                 /\ UNCHANGED <<founders_alts_v, distances>>
              \/ /\ marker_id' = marker_id + 1 /\ pc' = "fit"
                 /\ \A m \in 1 .. Len(founders_alts_v) :
                        m # marker_id' => founders_alts_v'[m] = founders_alts_v[m]
                 /\ dosages_v' = dosages_v
                 /\ \E d \in distances_with(marker_id + 1, founders_alts_v'[marker_id + 1]) :
                        distances' = FAdd(distances, d)]_vars

\* C20 witness: both markers of a two-marker run have been fitted by the
\* descent fitter, on different targets with different results, and the
\* aggregate is the sum of a distance 0 and a distance 1.
C20_Witness ==
    /\ pc = "write_vcf" /\ ~options.mip
    /\ marker_id = 2
    /\ dosages_v[1] # dosages_v[2]
    /\ founders_alts_v[1] # founders_alts_v[2]
    /\ returned_distances(1) = {FromInt(0)}
    /\ returned_distances(2) = {FromInt(1)}
    /\ distances = FromInt(1)

\* The L1 distance between target dd and the distribution the founder vector
\* alts induces through the map.
true_distance(dd, alts) ==
    l1_norm(dd, make_dosages_distribution(read_view(fill_samples_alts(haplotypes_m), alts)))

\* The committed founder vector of the call in progress: the vector without
\* the entry a probe has set for the moment.
committed_alts ==
    [f \in 1 .. Len(descent_founders_alts) |->
        IF descent.pc = "revert" /\ f = descent.j + 1 THEN 0 ELSE descent_founders_alts[f]]

\* C22: the distance descent_fitting::fit tracks is the L1 distance between
\* the target and the distribution of the committed founder vector, after
\* the initialization, after every commit, and when it is returned with the
\* final vector.
C22_TrackedDistanceIsTrue ==
    /\ descent.pc \in {"probe", "revert", "return"} =>
           descent.distance = true_distance(descent_dosages_d_in, committed_alts)
    /\ (descent.pc = "idle" /\ marker_id = 1) =>
           distances = true_distance(dosages_v[1], founders_alts_v[1])

\* What each fitter can return for the map, founder count and target of the
\* run, on a model that holds no temporary row.
exact_fits == {r \in mip_fit(haplotypes_m, options.n_founders, Target, <<>>, build_debug) :
                   ~r.aborted}
greedy_fits == descent_fit(haplotypes_m, options.n_founders, Target)

\* C23 as stated: for the map, founder count and target of a fitted marker, no
\* distance mip_fitting::fit returns is larger than a distance
\* descent_fitting::fit returns; the fit the run made is one of the two.
C23_ExactNotWorseThanGreedy ==
    (Fitted /\ pc # "aborted") =>
        LET exact == exact_fits
            greedy == greedy_fits
        IN  /\ \A e \in exact : \A g \in greedy : ~FLess(g.distance, e.distance)
            /\ \E r \in (IF options.mip THEN exact ELSE greedy) :
                   r.alts = founders_alts_v[1] /\ r.distance = distances

\* The L1 distance, as a real number, between the target of the run and the
\* distribution of the founder vector alts.
exact_distance(alts) == exact_l1(Target, induced(haplotypes_m, alts))

\* C23 amended: for the map, founder count and target of a fitted marker, no
\* founder vector mip_fitting::fit returns is farther from the target, in L1
\* distance computed without rounding, than a vector descent_fitting::fit
\* returns; the fit the run made is one of the two.
C23_ExactVectorNotFarther ==
    (Fitted /\ pc # "aborted") =>
        LET exact == exact_fits
            greedy == greedy_fits
            exact_d == {exact_distance(e.alts) : e \in exact}
            greedy_d == {exact_distance(g.alts) : g \in greedy}
        IN  /\ \A e \in exact_d : \A g \in greedy_d : ~FLess(g, e)
            /\ \E r \in (IF options.mip THEN exact ELSE greedy) :
                   r.alts = founders_alts_v[1] /\ r.distance = distances

\* C23 witness: the greedy fitter has fitted a marker and left a vector
\* strictly farther from the target than the optimum of the exact fitter.
C23_Witness ==
    /\ Fitted /\ ~options.mip /\ pc = "done"
    /\ \E e \in exact_fits : FLess(exact_distance(e.alts), exact_distance(founders_alts_v[1]))
    /\ \E g \in greedy_fits : g.distance = distances /\ g.alts = founders_alts_v[1]

\* The genotypes of record i whose last allele is not '.'.
known_genotypes(i) ==
    {j \in 1 .. Len(vcf_in[i].genotypeInfos) : last_allele(vcf_in[i].genotypeInfos[j]) # "."}

\* The record (1-based) marker k was loaded from: record i has position i - 1.
record_of(k) == positions[k][2] + 1

\* C24: read_vcf tests the last allele character before the ploidy.  A
\* biallelic record whose genotypes of wrong allele count all end in '.' is
\* loaded and raises nothing; the error is raised only at a record with a
\* genotype of wrong allele count not ending in '.'; and the raw distribution
\* of a loaded marker sums to the number of its genotypes not ending in '.'.
C24_UnknownTestFirst ==
    /\ \A i \in 1 .. rec_i :
           (~has_comma(vcf_in[i].alt) /\ \A r \in 1 .. i : ~raises(r)) =>
               \E k \in 1 .. Len(positions) : record_of(k) = i
    /\ (pc = "exit") => (exit_code = 1 /\ rec_i >= 1 /\ raises(rec_i))
    /\ (pc = "read_vcf") =>
           \A k \in 1 .. Len(dosages_v) :
               FSum(dosages_v[k]) = FromInt(Cardinality(known_genotypes(record_of(k))))

\* C24 witness: read_vcf has loaded a record with a three-allele genotype
\* ending in '.' and a record whose genotypes hold one '.' each, first and
\* last; each marker counts its one genotype not ending in '.'.
C24_Witness ==
    /\ pc = "read_vcf" /\ rec_i = 2 /\ Len(dosages_v) = 2
    /\ vcf_in[1].genotypeInfos = << <<"0", "/", "1", "/", ".">>, <<"0", "/", "0">> >>
    /\ vcf_in[2].genotypeInfos = << <<".", "|", "1">>, <<"1", "|", ".">> >>
    /\ dosages_v = << <<FromInt(1), FromInt(0), FromInt(0)>>,
                      <<FromInt(0), FromInt(1), FromInt(0)>> >>

\* C25: the markers fitted and written are the biallelic records of the
\* input file, all of them and in input order, whatever --markers holds:
\* after read_vcf n_markers is the number of loaded markers, one founder
\* vector per loaded marker is allocated, the fitting loop ends after as many
\* fits, and write_vcf writes one record per loaded marker at its position.
C25_AllLoadedMarkersProcessed ==
    LET loaded == biallelic_positions(Len(vcf_in))
    IN  /\ pc \in {"normalize", "founders", "haplotypes", "overflow", "resize", "fit",
                    "write_vcf", "done"} =>
               /\ positions = loaded
               /\ Len(dosages_v) = Len(loaded)
               /\ n_markers = Len(loaded)
        /\ pc \in {"fit", "write_vcf", "done"} => Len(founders_alts_v) = Len(loaded)
        /\ pc \in {"write_vcf", "done"} => marker_id = Len(loaded)
        /\ pc = "done" =>
               /\ vcf_out.written
               /\ Len(vcf_out.records) = Len(loaded)
               /\ \A m \in 1 .. Len(loaded) :
                      <<vcf_out.records[m].rID, vcf_out.records[m].beginPos>> = loaded[m]

\* C25 witness: a run with --markers 1 on a file of two biallelic records
\* has fitted and written both.
C25_Witness ==
    /\ pc = "done"
    /\ options.n_markers = 1
    /\ Len(vcf_in) = 2
    /\ marker_id = 2
    /\ Len(vcf_out.records) = 2
    /\ vcf_out.records[2].beginPos = 1

\* What a call of mip_fitting::fit for marker c returns on a model that holds
\* no temporary row: the results of the sequential program.
sequential_fits(c) ==
    {[alts |-> r.alts, distance |-> r.distance] :
        r \in {x \in mip_fit(haplotypes_m, options.n_founders, dosages_v[c], <<>>, build_debug) :
                   ~x.aborted}}

\* C21: when the two calls on the shared instance do not overlap, a solve
\* runs on the rows of its own call only, the member arrays name exactly
\* these rows, every result is a result of the sequential program, no row is
\* left when no call is in progress, and no erase meets an erased row.
C21_SequentialCallsSafe ==
    ~shared.overlapped =>
        /\ pc # "aborted"
        /\ \A c \in Calls :
               /\ in_progress(c) =>
                      /\ mip_rows = mip_dosages_rows(dosages_v[c])
                      /\ shared.handles = {shared.ids[i] : i \in 1 .. Len(shared.ids)}
               /\ shared.pc[c] \in {"read", "returned"} =>
                      shared.results[c] \in sequential_fits(c)
        /\ (\A c \in Calls : ~in_progress(c)) => mip_rows = <<>>

\* C21 witness: two overlapping calls have returned; the first has a result
\* the sequential program never gives for its marker, and rows are left in
\* the model.
C21_Witness ==
    /\ shared.overlapped
    /\ shared.pc = <<"returned", "returned">>
    /\ shared.results[1].distance \notin {r.distance : r \in sequential_fits(1)}
    /\ mip_rows # <<>>

====
